---- MODULE Spec2Model ----
(***************************************************************************)
(* Primary-source fragment extractor of the billiards-school assistant     *)
(* (src/src/knowledge/text_search.py).  Texts are sequences of one-letter  *)
(* strings; offsets are 0-based as in the Python source.                   *)
(***************************************************************************)
EXTENDS Integers, Sequences, FiniteSets, TLC

(***************************************************************************)
(* Python string primitives                                                *)
(***************************************************************************)
Digits == {"0", "1", "2", "3", "4", "5", "6", "7", "8", "9"}

Whitespace == {" ", "\n", "\t"}

UpperLetters == <<"A", "B", "K", "T", "U">>

LowerLetters == <<"a", "b", "k", "t", "u">>

\* s[i] with a 0-based index
Ch(s, i) == s[i + 1]

Max2(a, b) == IF a >= b THEN a ELSE b

Min2(a, b) == IF a <= b THEN a ELSE b

SetMax(S) == CHOOSE x \in S : \A y \in S : y <= x

SetMin(S) == CHOOSE x \in S : \A y \in S : x <= y

\* s[a:b]
Slice(s, a, b) == SubSeq(s, Max2(a, 0) + 1, Min2(b, Len(s)))

\* str.lower() on one character
LowerCh(c) ==
  IF \E i \in 1..Len(UpperLetters) : UpperLetters[i] = c
  THEN LowerLetters[CHOOSE i \in 1..Len(UpperLetters) : UpperLetters[i] = c]
  ELSE c

\* str.lower()
Lower(s) == [i \in 1..Len(s) |-> LowerCh(s[i])]

\* s.startswith(sub, at) for a 0-based offset at
MatchAt(s, sub, at) ==
  /\ at >= 0
  /\ at + Len(sub) <= Len(s)
  /\ \A k \in 1..Len(sub) : s[at + k] = sub[k]

StartsWith(s, sub) == MatchAt(s, sub, 0)

EndsWith(s, sub) == MatchAt(s, sub, Len(s) - Len(sub))

\* s.find(sub, from): least offset >= from where sub occurs, else -1
Find(s, sub, from) ==
  LET cands == {i \in Max2(from, 0)..(Len(s) - Len(sub)) : MatchAt(s, sub, i)}
  IN IF cands = {} THEN -1 ELSE SetMin(cands)

\* sub in s
Contains(s, sub) == Find(s, sub, 0) >= 0

\* s.rfind(sub, 0, end): greatest offset i with s[i:i+len(sub)] = sub inside s[0:end]
RFind(s, sub, end) ==
  LET cands == {i \in 0..(Min2(end, Len(s)) - Len(sub)) : MatchAt(s, sub, i)}
  IN IF cands = {} THEN -1 ELSE SetMax(cands)

\* s.lstrip() / s.rstrip() / s.strip()
LStrip(s) ==
  LET keep == {i \in 1..Len(s) : s[i] \notin Whitespace}
  IN IF keep = {} THEN << >> ELSE SubSeq(s, SetMin(keep), Len(s))

RStrip(s) ==
  LET keep == {i \in 1..Len(s) : s[i] \notin Whitespace}
  IN IF keep = {} THEN << >> ELSE SubSeq(s, 1, SetMax(keep))

Strip(s) == LStrip(RStrip(s))

\* s.rstrip('.')
RStripDots(s) ==
  LET keep == {i \in 1..Len(s) : s[i] # "."}
  IN IF keep = {} THEN << >> ELSE SubSeq(s, 1, SetMax(keep))

\* s.split(sep) for a one-character separator: always at least one piece
RECURSIVE SplitFrom(_, _, _)
SplitFrom(s, sep, from) ==
  LET p == Find(s, <<sep>>, from)
  IN IF p < 0 THEN <<Slice(s, from, Len(s))>>
     ELSE <<Slice(s, from, p)>> \o SplitFrom(s, sep, p + 1)

Split(s, sep) == SplitFrom(s, sep, 0)

\* s.split(): pieces between runs of whitespace, no empty piece
RECURSIVE SplitWsFrom(_, _)
SplitWsFrom(s, from) ==
  LET starts == {i \in from..(Len(s) - 1) : Ch(s, i) \notin Whitespace}
  IN IF starts = {} THEN << >>
     ELSE LET a == SetMin(starts)
              stops == {i \in a..(Len(s) - 1) : Ch(s, i) \in Whitespace}
              b == IF stops = {} THEN Len(s) ELSE SetMin(stops)
          IN <<Slice(s, a, b)>> \o SplitWsFrom(s, b)

SplitWs(s) == SplitWsFrom(s, 0)

\* sep.join(parts)
RECURSIVE Join(_, _)
Join(parts, sep) ==
  IF Len(parts) = 0 THEN << >>
  ELSE IF Len(parts) = 1 THEN parts[1]
  ELSE parts[1] \o sep \o Join(Tail(parts), sep)

\* s.replace(old, new), left to right, non-overlapping
RECURSIVE ReplaceFrom(_, _, _, _)
ReplaceFrom(s, old, new, from) ==
  LET p == Find(s, old, from)
  IN IF p < 0 THEN Slice(s, from, Len(s))
     ELSE Slice(s, from, p) \o new \o ReplaceFrom(s, old, new, p + Len(old))

Replace(s, old, new) == ReplaceFrom(s, old, new, 0)

\* the elements of a sequence
Range(f) == {f[i] : i \in DOMAIN f}

\* a set of integers as an ascending sequence: sorted(set(...))
RECURSIVE SortedSeq(_)
SortedSeq(S) ==
  IF S = {} THEN << >>
  ELSE LET m == SetMin(S) IN <<m>> \o SortedSeq(S \ {m})

(***************************************************************************)
(* Regular expressions of text_search.py                                   *)
(***************************************************************************)
\* end of the digit run that starts at offset i (i itself when there is none)
RECURSIVE DigitRunEnd(_, _)
DigitRunEnd(s, i) ==
  IF i < Len(s) /\ Ch(s, i) \in Digits THEN DigitRunEnd(s, i + 1) ELSE i

\* (?:\.\d+)*\. followed by \s, tried at offset j: end of the number, or -1
RECURSIVE DottedTail(_, _)
DottedTail(s, j) ==
  IF j >= Len(s) \/ Ch(s, j) # "." THEN -1
  ELSE IF j + 1 < Len(s) /\ Ch(s, j + 1) \in Digits
       THEN DottedTail(s, DigitRunEnd(s, j + 1))
       ELSE IF j + 1 < Len(s) /\ Ch(s, j + 1) \in Whitespace THEN j + 1 ELSE -1

\* (\d{1,2}(?:\.\d+)*\.)\s+ tried at offset i: end of group 1, or -1
NumberEnd(s, i) ==
  IF i >= Len(s) \/ Ch(s, i) \notin Digits THEN -1
  ELSE IF i + 1 < Len(s) /\ Ch(s, i + 1) \in Digits
       THEN DottedTail(s, i + 2)
       ELSE DottedTail(s, i + 1)

\* end of the whitespace run that starts at offset i
RECURSIVE WsRunEnd(_, _)
WsRunEnd(s, i) ==
  IF i < Len(s) /\ Ch(s, i) \in Whitespace THEN WsRunEnd(s, i + 1) ELSE i

\* point_pattern.finditer(s) resumed at offset from; a match is the pair
\* (start(1), group(1))
RECURSIVE PointScan(_, _)
PointScan(s, from) ==
  IF from >= Len(s) THEN << >>
  ELSE LET g == IF from = 0 /\ NumberEnd(s, 0) >= 0 THEN 0
                ELSE IF Ch(s, from) = "\n" /\ NumberEnd(s, from + 1) >= 0
                     THEN from + 1 ELSE -1
       IN IF g < 0 THEN PointScan(s, from + 1)
          ELSE LET e == NumberEnd(s, g)
               IN <<[pos |-> g, number |-> Slice(s, g, e)]>>
                    \o PointScan(s, WsRunEnd(s, e))

\* list(re.compile(r'(?:^|\n)(\d{1,2}(?:\.\d+)*\.)\s+').finditer(s))
point_pattern(s) == PointScan(s, 0)

\* re.search(r'(\d{1,2}(?:\.\d+)*\.)\s+', s) is not None
other_number_match(s) == \E i \in 0..(Len(s) - 1) : NumberEnd(s, i) >= 0

\* starts of the matches of re.finditer(r'^# ([^\n]+)', s, re.MULTILINE)
SectionHeaderStarts(s) ==
  {i \in 0..(Len(s) - 3) :
     /\ i = 0 \/ Ch(s, i - 1) = "\n"
     /\ Ch(s, i) = "#"
     /\ Ch(s, i + 1) = " "
     /\ Ch(s, i + 2) # "\n"}

\* group(1) of the header match that starts at offset i of s
HeaderGroup(s, i) ==
  LET nl == Find(s, <<"\n">>, i)
  IN Slice(s, i + 2, IF nl < 0 THEN Len(s) ELSE nl)

\* section_match[-1].group(1).strip() if section_match else '', on s = content[:p]
LastSectionTitle(s) ==
  LET hs == SectionHeaderStarts(s)
  IN IF hs = {} THEN << >> ELSE Strip(HeaderGroup(s, SetMax(hs)))

\* starts of the matches of re.finditer(r'^# ', s, re.MULTILINE)
SectionMarkerStarts(s) ==
  {i \in 0..(Len(s) - 2) :
     /\ i = 0 \/ Ch(s, i - 1) = "\n"
     /\ Ch(s, i) = "#"
     /\ Ch(s, i + 1) = " "}

\* len(number.rstrip('.').split('.'))
NumberLevel(number) == Len(Split(RStripDots(number), "."))

(***************************************************************************)
(* Document constants                                                      *)
(***************************************************************************)
INTERNATIONAL_RULES == "2.1.1_international_rules_structured.txt"

CORONA_RULES == "2.1.2_corona_rules_structured.txt"

TECHNICAL_REQUIREMENTS == "2.2_technical_requirements_structured.txt"

ALLOWED_SOURCES == <<INTERNATIONAL_RULES, CORONA_RULES, TECHNICAL_REQUIREMENTS>>

(***************************************************************************)
(* Steps shared by the three per-document collectors                       *)
(***************************************************************************)
\* content.replace('###', '\n###'), then a leading '\n' unless already there
content_with_newlines_of(content) ==
  LET r == Replace(content, <<"#", "#", "#">>, <<"\n", "#", "#", "#">>)
  IN IF StartsWith(r, <<"\n">>) THEN r ELSE <<"\n">> \o r

\* every start offset of term in text, each search resuming one character
\* after the start of the previous occurrence
RECURSIVE OccurrencesFrom_overlapping(_, _, _)
OccurrencesFrom_overlapping(text, term, from) ==
  LET p == Find(text, term, from)
  IN IF p < 0 THEN {}
     ELSE {p} \cup OccurrencesFrom_overlapping(text, term, p + 1)

\* every start offset of term in text, each search resuming after the
\* previous occurrence (pos += len(term))
RECURSIVE OccurrencesFrom(_, _, _)
OccurrencesFrom(text, term, from) ==
  LET p == Find(text, term, from)
  IN IF p < 0 THEN {} ELSE {p} \cup OccurrencesFrom(text, term, p + Len(term))

\* STEP 1: sorted(set(relevant_positions)) over all words and phrases
relevant_positions_of(cwn, words, phrs) ==
  LET content_lower == Lower(cwn)
  IN SortedSeq(
       UNION {OccurrencesFrom(content_lower, words[i], 0) : i \in DOMAIN words}
       \cup UNION {OccurrencesFrom(content_lower, phrs[i], 0) : i \in DOMAIN phrs})

\* rel_section, section_start and section_end of a relevant position
SectionOf(cwn, rel_pos) ==
  LET before_rel_pos == Slice(cwn, 0, rel_pos)
      hs == SectionHeaderStarts(before_rel_pos)
      nxt == SectionMarkerStarts(Slice(cwn, rel_pos, Len(cwn)))
  IN [rel_section |-> LastSectionTitle(before_rel_pos),
      section_start |-> IF hs = {} THEN 0 ELSE SetMax(hs),
      section_end |-> IF nxt = {} THEN Len(cwn) ELSE rel_pos + SetMin(nxt)]

\* point_section: the title of the last header before a point
PointSection(cwn, point_pos) == LastSectionTitle(Slice(cwn, 0, point_pos))

\* index of the first (last) point of the set S of indexes, 0 when S is empty
FirstPoint(pts, S) ==
  IF S = {} THEN 0 ELSE CHOOSE k \in S : \A j \in S : pts[k].pos <= pts[j].pos

LastPoint(pts, S) ==
  IF S = {} THEN 0 ELSE CHOOSE k \in S : \A j \in S : pts[j].pos <= pts[k].pos

\* offset of the first point of S, default when S is empty
FirstPosOr(pts, S, default) ==
  IF S = {} THEN default ELSE SetMin({pts[k].pos : k \in S})

\* index in all_points of the nearest point at or above rel_pos inside the
\* section, 0 when there is none
NearestPoint(cwn, pts, rel_pos, sec) ==
  LastPoint(pts, {k \in DOMAIN pts :
                    /\ pts[k].pos <= rel_pos
                    /\ pts[k].pos >= sec.section_start
                    /\ PointSection(cwn, pts[k].pos) = sec.rel_section})

\* line_start after the number was located on its line; -1 when the
\* candidate is abandoned
LineStartOf(cwn, number, number_start) ==
  LET line_start == RFind(cwn, <<"\n">>, number_start) + 1
      line_with_number == Slice(cwn, line_start, number_start + Len(number) + 10)
  IN IF StartsWith(Strip(line_with_number), number) THEN line_start
     ELSE LET number_pos_in_line == Find(line_with_number, number, 0)
          IN IF number_pos_in_line >= 0 THEN line_start + number_pos_in_line
             ELSE -1

\* the candidate is dropped (continue), or goes on with this text
Dropped == [ok |-> FALSE, text |-> << >>]

Kept(text) == [ok |-> TRUE, text |-> text]

\* the first line must open with the number, or hold it after a text that
\* holds no other number
TrimFirstLine(block_text0, number, lines) ==
  LET first_line == Strip(lines[1])
      number_pos_in_first == Find(first_line, number, 0)
      text_before_number == Strip(Slice(first_line, 0, number_pos_in_first))
      same_number_before ==
        /\ StartsWith(text_before_number, number)
        /\ Len(text_before_number) > Len(number)
        /\ Ch(text_before_number, Len(number)) \in Whitespace
  IN IF StartsWith(first_line, number \o <<" ">>) THEN Kept(block_text0)
     ELSE IF number_pos_in_first > 0
     THEN IF /\ text_before_number # << >>
             /\ same_number_before \/ other_number_match(text_before_number)
          THEN Dropped
          ELSE Kept(Strip(Join(
                 <<Strip(Slice(first_line, number_pos_in_first, Len(first_line)))>>
                   \o Tail(lines), <<"\n">>)))
     ELSE Dropped

\* the block must start with the number, or is cut to where the number is
TrimBlockStart(step1, number) ==
  LET number_pos == Find(step1.text, number, 0)
      text_before == Strip(Slice(step1.text, 0, number_pos))
  IN IF ~step1.ok THEN Dropped
     ELSE IF StartsWith(step1.text, number) THEN step1
     ELSE IF number_pos < 0 THEN Dropped
     ELSE IF text_before # << >> /\ other_number_match(text_before) THEN Dropped
     ELSE Kept(Strip(Slice(step1.text, number_pos, Len(step1.text))))

\* the final check: the first line of the block starts with the number
TrimFinalCheck(step2, number) ==
  IF step2.ok /\ StartsWith(Strip(Split(step2.text, "\n")[1]), number)
  THEN step2 ELSE Dropped

\* the block must open with its own number: the trimmed text, or ok = FALSE
\* when the candidate is dropped
TrimToNumber(block_text0, number) ==
  TrimFinalCheck(
    TrimBlockStart(
      TrimFirstLine(block_text0, number, Split(block_text0, "\n")), number),
    number)

\* has_search_word without the test of the block's text
HasSearchWord_unchecked(block_text_lower, words, phrs) == TRUE

\* has_search_word: any keyword, or (when phrases are given) all phrases
HasSearchWord(block_text_lower, words, phrs) ==
  LET by_word == /\ words # << >>
                 /\ \E i \in DOMAIN words : Contains(block_text_lower, words[i])
  IN IF phrs # << >>
     THEN by_word \/ \A i \in DOMAIN phrs : Contains(block_text_lower, phrs[i])
     ELSE by_word

\* section of a numbered fragment: title of the last header before start,
\* one trailing '.' removed
SectionTextAt(cwn, start) ==
  LET section_text == LastSectionTitle(Slice(cwn, 0, start))
  IN IF EndsWith(section_text, <<".">>) /\ section_text # << >>
     THEN Strip(Slice(section_text, 0, Len(section_text) - 1))
     ELSE section_text

\* the fragment dict
Fragment(doc, section, text, number, words, phrs, start) ==
  [source |-> doc, section |-> section, text |-> text, rule_number |-> number,
   rule_label |-> << >>, found_words |-> words, found_phrases |-> phrs,
   position |-> start]

\* outcome of one iteration of a collector's loop over relevant_positions
Outcome(processed, emitted) == [processed |-> processed, emitted |-> emitted]

\* the end of an iteration of the corona and international collectors: the
\* keyword test, the section, the fragment
EmitTrimmed(cwn, doc, words, phrs, processed, number, start, trimmed) ==
  IF ~trimmed.ok THEN Outcome(processed, << >>)
  ELSE IF ~HasSearchWord(Lower(trimmed.text), words, phrs)
       THEN Outcome(processed, << >>)
  ELSE Outcome(processed \cup {number},
               <<Fragment(doc, SectionTextAt(cwn, start), trimmed.text,
                          number, words, phrs, start)>>)

\* a block that holds a section header after its start is dropped
EmitBlock(cwn, doc, words, phrs, processed, number, start, block_text) ==
  IF /\ SectionMarkerStarts(block_text) # {}
     /\ SetMin(SectionMarkerStarts(block_text)) > 0
  THEN Outcome(processed, << >>)
  ELSE EmitTrimmed(cwn, doc, words, phrs, processed, number, start,
                   TrimToNumber(block_text, number))

(***************************************************************************)
(* _collect_fragments_corona_rules: one iteration of the loop over         *)
(* relevant_positions                                                      *)
(***************************************************************************)
CoronaBlock(cwn, pts, doc, words, phrs, processed, sec, number, start) ==
  LET next_points == {k \in DOMAIN pts :
                        /\ pts[k].pos > start
                        /\ pts[k].pos < sec.section_end
                        /\ PointSection(cwn, pts[k].pos) = sec.rel_section}
      end == FirstPosOr(pts, next_points, sec.section_end)
  IN IF start < 0 THEN Outcome(processed, << >>)
     ELSE IF start < sec.section_start THEN Outcome(processed, << >>)
     ELSE EmitBlock(cwn, doc, words, phrs, processed, number, start,
                    Strip(Slice(cwn, start, end)))

\* from the clause number to the fragment (lines 1496-1607)
CoronaEmit(cwn, pts, doc, words, phrs, processed, sec, number, number_start) ==
  IF number \in processed THEN Outcome(processed, << >>)
  ELSE CoronaBlock(cwn, pts, doc, words, phrs, processed, sec, number,
                   LineStartOf(cwn, number, number_start))

\* the search of a sub-point below the nearest point (lines 1428-1494)
CoronaAtPoint(cwn, pts, doc, words, phrs, processed, rel_pos, sec, nearest_point) ==
  LET rel_section == sec.rel_section
      section_end == sec.section_end
      original_number == pts[nearest_point].number
      number_start0 == pts[nearest_point].pos
      point_level == NumberLevel(original_number)
      InSection(k) == PointSection(cwn, pts[k].pos) = rel_section
      IsSubOf(k) ==
        /\ NumberLevel(pts[k].number) > point_level
        /\ StartsWith(pts[k].number, RStripDots(original_number) \o <<".">>)
      same_level == {k \in DOMAIN pts :
                       /\ pts[k].pos > number_start0
                       /\ pts[k].pos < section_end
                       /\ InSection(k)
                       /\ NumberLevel(pts[k].number) <= point_level}
      next_same_level_pos == FirstPosOr(pts, same_level, section_end)
      sub_above == {k \in DOMAIN pts :
                      /\ pts[k].pos > number_start0
                      /\ pts[k].pos < section_end
                      /\ InSection(k)
                      /\ IsSubOf(k)
                      /\ pts[k].pos <= rel_pos}
      found_subpoint == LastPoint(pts, sub_above)
      \* the loop stops at the first point of the section after the number
      after_number == {k \in DOMAIN pts :
                         /\ pts[k].pos > number_start0
                         /\ pts[k].pos < next_same_level_pos
                         /\ InSection(k)}
      first_after == FirstPoint(pts, after_number)
      has_subpoints == first_after # 0 /\ IsSubOf(first_after)
      first_subpoint_pos == IF has_subpoints THEN pts[first_after].pos ELSE section_end
  IN IF nearest_point = 0 THEN Outcome(processed, << >>)
     ELSE IF original_number \in processed THEN Outcome(processed, << >>)
     ELSE IF has_subpoints /\ rel_pos < first_subpoint_pos
          THEN Outcome(processed \cup {original_number}, << >>)
     ELSE IF found_subpoint # 0
          THEN CoronaEmit(cwn, pts, doc, words, phrs,
                          processed \cup {original_number}, sec,
                          pts[found_subpoint].number, pts[found_subpoint].pos)
     ELSE CoronaEmit(cwn, pts, doc, words, phrs, processed, sec,
                     original_number, number_start0)

CoronaInSection(cwn, pts, doc, words, phrs, processed, rel_pos, sec) ==
  CoronaAtPoint(cwn, pts, doc, words, phrs, processed, rel_pos, sec,
                NearestPoint(cwn, pts, rel_pos, sec))

\* one iteration of the loop over relevant_positions
CoronaIteration(cwn, pts, doc, words, phrs, processed, rel_pos) ==
  CoronaInSection(cwn, pts, doc, words, phrs, processed, rel_pos,
                  SectionOf(cwn, rel_pos))

(***************************************************************************)
(* _collect_fragments_international_rules                                  *)
(***************************************************************************)
\* total_length: the lines up to index e, with one '\n' between two lines
RECURSIVE total_length(_, _)
total_length(lines, e) ==
  IF e = 0 THEN 0
  ELSE total_length(lines, e - 1) + Len(lines[e]) + (IF e > 1 THEN 1 ELSE 0)

\* a list item (lines cs..ce) closes the list when it ends with '.' and its
\* end lies before section_end
ItemEnd(lines, cs, ce, from, section_end, list_end_pos) ==
  LET item_text == Join(SubSeq(lines, cs, ce), <<"\n">>)
      list_item_end_absolute == from + total_length(lines, ce)
  IN IF EndsWith(RStrip(item_text), <<".">>) /\ list_item_end_absolute < section_end
     THEN list_item_end_absolute
     ELSE list_end_pos

\* the scan over the lines after the clause start: cs, ce are the first and
\* last line of the current '-' item (0: no item yet)
RECURSIVE ListScan(_, _, _, _, _, _, _)
ListScan(lines, i, cs, ce, list_end_pos, from, section_end) ==
  IF i > Len(lines)
  THEN IF cs > 0 THEN ItemEnd(lines, cs, ce, from, section_end, list_end_pos)
       ELSE list_end_pos
  ELSE IF StartsWith(Strip(lines[i]), <<"-">>)
  THEN ListScan(lines, i + 1, i, i,
                IF cs > 0 THEN ItemEnd(lines, cs, ce, from, section_end, list_end_pos)
                ELSE list_end_pos,
                from, section_end)
  ELSE IF cs > 0
  THEN ListScan(lines, i + 1, cs, i, list_end_pos, from, section_end)
  ELSE ListScan(lines, i + 1, cs, ce, list_end_pos, from, section_end)

\* list_end_pos: end of the last '-' item that is terminated by '.', -1 if none
ListEndPos(cwn, from, section_end) ==
  ListScan(Split(Slice(cwn, from, Len(cwn)), "\n"), 1, 0, 0, -1, from, section_end)

\* subpoint_end of the sub-point pts[k] (first loop of the collector)
SubpointEnd(cwn, pts, k, sec) ==
  LET point_pos == pts[k].pos
      section_end == sec.section_end
      list_end_pos == ListEndPos(cwn, point_pos, section_end)
      nxt == {j \in DOMAIN pts :
                /\ pts[j].pos > point_pos
                /\ pts[j].pos < section_end
                /\ PointSection(cwn, pts[j].pos) = sec.rel_section
                /\ NumberLevel(pts[j].number) <= NumberLevel(pts[k].number)}
      next_point_end == FirstPosOr(pts, nxt, section_end)
      subpoint_end0 == IF list_end_pos > 0 /\ list_end_pos < next_point_end
                       THEN list_end_pos ELSE next_point_end
      nxt13 == {j \in DOMAIN pts :
                  /\ pts[j].pos > point_pos
                  /\ PointSection(cwn, pts[j].pos) = sec.rel_section
                  /\ StartsWith(pts[j].number, <<"1", "3", ".">>)
                  /\ pts[j].number # <<"1", "3", ".", "1", ".">>}
  IN IF subpoint_end0 = section_end
     THEN FirstPosOr(pts, nxt13, subpoint_end0)
     ELSE subpoint_end0

\* found_subpoint_for_rel: index of the last sub-point (level > 1) of the
\* section whose span holds rel_pos, 0 when there is none
FoundSubpointForRel(cwn, pts, rel_pos, sec) ==
  LastPoint(pts, {k \in DOMAIN pts :
                    /\ NumberLevel(pts[k].number) > 1
                    /\ pts[k].pos >= sec.section_start
                    /\ pts[k].pos < sec.section_end
                    /\ PointSection(cwn, pts[k].pos) = sec.rel_section
                    /\ pts[k].pos <= rel_pos
                    /\ rel_pos < SubpointEnd(cwn, pts, k, sec)})

\* from the clause number to the fragment (lines 1931-2097), shared by both
\* branches of the iteration
InternationalBlock(cwn, pts, doc, words, phrs, processed, sec, number, start) ==
  LET section_end == sec.section_end
      list_end_pos == ListEndPos(cwn, start, section_end)
      next_points == {k \in DOMAIN pts :
                        /\ pts[k].pos > start
                        /\ pts[k].pos < section_end
                        /\ PointSection(cwn, pts[k].pos) = sec.rel_section}
      end == IF list_end_pos > 0 THEN list_end_pos
             ELSE FirstPosOr(pts, next_points, section_end)
  IN IF start < 0 THEN Outcome(processed, << >>)
     ELSE IF start < sec.section_start THEN Outcome(processed, << >>)
     ELSE EmitBlock(cwn, doc, words, phrs, processed, number, start,
                    Strip(Slice(cwn, start, end)))

InternationalEmit(cwn, pts, doc, words, phrs, processed, sec, number, number_start) ==
  IF number \in processed THEN Outcome(processed, << >>)
  ELSE InternationalBlock(cwn, pts, doc, words, phrs, processed, sec, number,
                          LineStartOf(cwn, number, number_start))

\* one iteration of the loop over relevant_positions
InternationalSubpoint(cwn, pts, doc, words, phrs, processed, sec, sub_number, sub_pos) ==
  IF sub_number \in processed THEN Outcome(processed, << >>)
  ELSE InternationalEmit(cwn, pts, doc, words, phrs,
                         processed \cup {Split(sub_number, ".")[1] \o <<".">>},
                         sec, sub_number, sub_pos)

\* no sub-point holds rel_pos: the nearest point above it (lines 1821-1926)
InternationalAtPoint(cwn, pts, doc, words, phrs, processed, rel_pos, sec, nearest_point) ==
  LET section_end == sec.section_end
      number == pts[nearest_point].number
      number_start == pts[nearest_point].pos
      point_level == NumberLevel(number)
      InSection(k) == PointSection(cwn, pts[k].pos) = sec.rel_section
      \* the loop breaks at the first point of the section after the number
      after_number == {k \in DOMAIN pts :
                         /\ pts[k].pos > number_start
                         /\ pts[k].pos < section_end
                         /\ InSection(k)}
      first_after == FirstPoint(pts, after_number)
      next_same_level_pos ==
        IF first_after # 0 /\ NumberLevel(pts[first_after].number) <= point_level
        THEN pts[first_after].pos ELSE section_end
      subpoints == {k \in DOMAIN pts :
                      /\ pts[k].pos > number_start
                      /\ pts[k].pos < next_same_level_pos
                      /\ InSection(k)
                      /\ NumberLevel(pts[k].number) > point_level
                      /\ StartsWith(pts[k].number, RStripDots(number) \o <<".">>)}
      has_subpoints == subpoints # {}
      first_subpoint_pos == FirstPosOr(pts, subpoints, section_end)
  IN IF nearest_point = 0 THEN Outcome(processed, << >>)
     ELSE IF number \in processed THEN Outcome(processed, << >>)
     ELSE IF has_subpoints /\ rel_pos < first_subpoint_pos
          THEN Outcome(processed \cup {number}, << >>)
     ELSE InternationalEmit(cwn, pts, doc, words, phrs, processed, sec,
                            number, number_start)

InternationalInSection(cwn, pts, doc, words, phrs, processed, rel_pos, sec, found_subpoint_for_rel) ==
  IF found_subpoint_for_rel # 0
  THEN InternationalSubpoint(cwn, pts, doc, words, phrs, processed, sec,
                             pts[found_subpoint_for_rel].number,
                             pts[found_subpoint_for_rel].pos)
  ELSE InternationalAtPoint(cwn, pts, doc, words, phrs, processed, rel_pos, sec,
                            NearestPoint(cwn, pts, rel_pos, sec))

InternationalAt(cwn, pts, doc, words, phrs, processed, rel_pos, sec) ==
  InternationalInSection(cwn, pts, doc, words, phrs, processed, rel_pos, sec,
                         FoundSubpointForRel(cwn, pts, rel_pos, sec))

\* one iteration of the loop over relevant_positions
InternationalIteration(cwn, pts, doc, words, phrs, processed, rel_pos) ==
  InternationalAt(cwn, pts, doc, words, phrs, processed, rel_pos,
                  SectionOf(cwn, rel_pos))

(***************************************************************************)
(* _collect_fragments_technical_requirements                               *)
(***************************************************************************)
\* the function's locals block_text, block_text_lower, start and
\* has_search_word live across iterations; they are unbound until an
\* iteration assigns them
UnboundLocals == [bound |-> FALSE, block_text |-> << >>, start |-> 0,
                  has_search_word |-> FALSE]

\* offset of the end of the line that holds offset p
LineEnd(cwn, p) ==
  LET nl == Find(cwn, <<"\n">>, p) IN IF nl < 0 THEN Len(cwn) ELSE nl

\* is_list_item: the line of the number, stripped, ends with '.'
IsListItem(cwn, number_start) ==
  EndsWith(Strip(Slice(cwn, number_start, LineEnd(cwn, number_start))), <<".">>)

\* section_content_start: first offset after the header line of rel_pos
SectionContentStart(cwn, rel_pos, section_start) ==
  LET before == Slice(cwn, 0, rel_pos)
      hs == SectionHeaderStarts(before)
      section_header_end == LineEnd(before, SetMax(hs))
      nl == Find(cwn, <<"\n">>, section_header_end)
  IN IF hs = {} THEN section_start
     ELSE IF nl >= 0 THEN nl + 1 ELSE section_header_end

\* the points after number_start, taken while their line ends with '.':
\* the loops at 1045-1064 and 1186-1207 stop at the first other point
RECURSIVE ListRun(_, _, _)
ListRun(cwn, pts_after, i) ==
  IF i > Len(pts_after) THEN << >>
  ELSE IF IsListItem(cwn, pts_after[i].pos)
       THEN <<pts_after[i]>> \o ListRun(cwn, pts_after, i + 1)
       ELSE << >>

\* the points of the section after number_start, in document order
PointsAfter(cwn, pts, number_start, sec) ==
  LET idx == {k \in DOMAIN pts :
                /\ pts[k].pos > number_start
                /\ pts[k].pos < sec.section_end
                /\ PointSection(cwn, pts[k].pos) = sec.rel_section}
  IN [i \in 1..Cardinality(idx) |->
        pts[CHOOSE k \in idx : Cardinality({j \in idx : j < k}) = i - 1]]

\* list_end; with_newline tells whether the '\n' after the last item is
\* included (line 1204) or not (line 1062)
ListEnd(cwn, pts, number_start, sec, with_newline) ==
  LET run == ListRun(cwn, PointsAfter(cwn, pts, number_start, sec), 1)
      last_pos == run[Len(run)].pos
      nl == Find(cwn, <<"\n">>, last_pos)
  IN IF run = << >> THEN sec.section_end
     ELSE IF nl < 0 THEN Len(cwn)
     ELSE IF with_newline THEN nl + 1 ELSE nl

TechOutcome(emitted, locals, error, checks_max) ==
  [emitted |-> emitted, locals |-> locals, error |-> error,
   checks_max |-> checks_max]

\* rel_pos lies above every number of its section (lines 999-1129)
TechPreambleBlock(doc, words, phrs, sec, start, block_text) ==
  LET has_search_word == HasSearchWord(Lower(block_text), words, phrs)
  IN TechOutcome(
       IF has_search_word
       THEN <<Fragment(doc, sec.rel_section, block_text, << >>, words, phrs, start)>>
       ELSE << >>,
       [bound |-> TRUE, block_text |-> block_text, start |-> start,
        has_search_word |-> has_search_word],
       FALSE, FALSE)

TechPreambleBelow(cwn, pts, doc, words, phrs, locals, sec, start, first_point_below) ==
  LET number_start == pts[first_point_below].pos
      end == IF IsListItem(cwn, number_start)
             THEN ListEnd(cwn, pts, number_start, sec, FALSE)
             ELSE number_start
  IN IF first_point_below = 0 THEN TechOutcome(<< >>, locals, FALSE, FALSE)
     ELSE TechPreambleBlock(doc, words, phrs, sec, start,
                            Strip(Slice(cwn, start, end)))

TechPreamble(cwn, pts, doc, words, phrs, locals, rel_pos, sec) ==
  TechPreambleBelow(cwn, pts, doc, words, phrs, locals, sec,
    SectionContentStart(cwn, rel_pos, sec.section_start),
    FirstPoint(pts, {k \in DOMAIN pts :
                       /\ pts[k].pos > rel_pos
                       /\ pts[k].pos < sec.section_end
                       /\ PointSection(cwn, pts[k].pos) = sec.rel_section}))

\* rel_pos lies at or below a number of its section (lines 1131-1239)
TechPointBlock(doc, words, phrs, sec, locals, locals1) ==
  LET block_text_lower == Lower(locals1.block_text)
      by_word == IF words # << >>
                 THEN \E i \in DOMAIN words : Contains(block_text_lower, words[i])
                 ELSE locals1.has_search_word
      has_search_word ==
        IF phrs # << >>
        THEN by_word \/ \A i \in DOMAIN phrs : Contains(block_text_lower, phrs[i])
        ELSE by_word
  \* block_text_lower or has_search_word is read before any assignment
  IN IF ~locals1.bound THEN TechOutcome(<< >>, locals, TRUE, FALSE)
     ELSE TechOutcome(
            IF has_search_word
            THEN <<Fragment(doc, sec.rel_section, locals1.block_text, << >>,
                            words, phrs, locals1.start)>>
            ELSE << >>,
            [locals1 EXCEPT !.has_search_word = has_search_word], FALSE, TRUE)

\* the list block of a list item (lines 1151-1212)
TechListBlock(cwn, pts, sec, number_start, start) ==
  [bound |-> TRUE,
   block_text |-> Strip(Slice(cwn, start, ListEnd(cwn, pts, number_start, sec, TRUE))),
   start |-> start, has_search_word |-> FALSE]

TechPoint(cwn, pts, doc, words, phrs, processed, locals, rel_pos, sec, nearest_point) ==
  LET number == pts[nearest_point].number
      number_start == pts[nearest_point].pos
  IN IF number \in processed THEN TechOutcome(<< >>, locals, FALSE, FALSE)
     ELSE TechPointBlock(doc, words, phrs, sec, locals,
            IF IsListItem(cwn, number_start)
            THEN TechListBlock(cwn, pts, sec, number_start,
                   SectionContentStart(cwn, rel_pos, sec.section_start))
            ELSE locals)

\* one iteration of the loop over relevant_positions
TechnicalInSection(cwn, pts, doc, words, phrs, processed, locals, rel_pos, sec, nearest_point) ==
  IF nearest_point = 0
  THEN TechPreamble(cwn, pts, doc, words, phrs, locals, rel_pos, sec)
  ELSE TechPoint(cwn, pts, doc, words, phrs, processed, locals, rel_pos, sec,
                 nearest_point)

TechnicalAt(cwn, pts, doc, words, phrs, processed, locals, rel_pos, sec) ==
  TechnicalInSection(cwn, pts, doc, words, phrs, processed, locals, rel_pos, sec,
                     NearestPoint(cwn, pts, rel_pos, sec))

TechnicalIteration(cwn, pts, doc, words, phrs, processed, locals, rel_pos) ==
  TechnicalAt(cwn, pts, doc, words, phrs, processed, locals, rel_pos,
              SectionOf(cwn, rel_pos))

(***************************************************************************)
(* Document router and query decomposition                                 *)
(***************************************************************************)
\* the routing table in insertion order; the Cyrillic keys are written in
\* Latin letters
CONTEXT_ROUTES ==
  << [key |-> <<"k", "o", "r", "o", "n", "a">>, doc |-> CORONA_RULES],
     [key |-> <<"p", "i", "r", "a", "m", "i", "d">>, doc |-> INTERNATIONAL_RULES],
     [key |-> <<"m", "e", "z", "h", "d", "u", "n", "a", "r">>, doc |-> INTERNATIONAL_RULES],
     [key |-> <<"o", "b", "o", "r", "u", "d">>, doc |-> TECHNICAL_REQUIREMENTS],
     [key |-> <<"a", "k", "s", "e", "s">>, doc |-> TECHNICAL_REQUIREMENTS],
     [key |-> <<"f", "b", "s", "r">>, doc |-> TECHNICAL_REQUIREMENTS] >>

base_stop_words ==
  { <<"i", "g", "r", "a">>, <<"r", "u", "s", "s", "k", "i", "j">>,
    <<"b", "i", "l", "j", "a", "r", "d">>, <<"s", "t", "o", "l">>,
    <<"o", "b", "s", "h", "c", "h", "i", "e">> }

\* a _sort_key that ranks every document alike: the sort keeps the order in
\* which the router found the documents
SortKey_flat(doc) == 2

\* _sort_key: the priority of a document
SortKey(doc) ==
  IF doc = INTERNATIONAL_RULES THEN 0
  ELSE IF doc = CORONA_RULES THEN 1
  ELSE 2

IsKnown(doc) == doc \in Range(ALLOWED_SOURCES)

\* the hits' sources without the "src in ALLOWED_SOURCES" test
RECURSIVE FromHits_any(_, _)
FromHits_any(hs, acc) ==
  IF hs = << >> THEN acc
  ELSE FromHits_any(Tail(hs),
                    IF Head(hs).source \notin Range(acc)
                    THEN Append(acc, Head(hs).source) ELSE acc)

\* the hits' sources that are known documents, each once, in hit order
\* (the sources drawn as inputs carry no surrounding whitespace, so that
\* strip() leaves them as they are)
RECURSIVE FromHits(_, _)
FromHits(hs, acc) ==
  IF hs = << >> THEN acc
  ELSE FromHits(Tail(hs),
                IF IsKnown(Head(hs).source) /\ Head(hs).source \notin Range(acc)
                THEN Append(acc, Head(hs).source) ELSE acc)

\* the router without the "if not candidate_docs" guard of the routing
\* keywords: routed documents are appended to the allowed ones
_collect_candidate_docs_unguarded(hs, allowed, lwquery) ==
  LET from_allowed == SelectSeq(allowed, IsKnown)
      routed_idx == {i \in DOMAIN CONTEXT_ROUTES :
                       /\ Contains(lwquery, CONTEXT_ROUTES[i].key)
                       /\ IsKnown(CONTEXT_ROUTES[i].doc)}
      from_routes == [n \in 1..Cardinality(routed_idx) |->
                        CONTEXT_ROUTES[CHOOSE i \in routed_idx :
                          Cardinality({j \in routed_idx : j < i}) = n - 1].doc]
      candidate_docs ==
        IF from_allowed \o from_routes # << >> THEN from_allowed \o from_routes
        ELSE FromHits(hs, << >>)
      Rank0(d) == SortKey(d) = 0
      Rank1(d) == SortKey(d) = 1
      Rank2(d) == SortKey(d) = 2
  IN SelectSeq(candidate_docs, Rank0) \o SelectSeq(candidate_docs, Rank1)
       \o SelectSeq(candidate_docs, Rank2)

_collect_candidate_docs(hs, allowed, lwquery) ==
  LET from_allowed == SelectSeq(allowed, IsKnown)
      routed_idx == {i \in DOMAIN CONTEXT_ROUTES :
                       /\ Contains(lwquery, CONTEXT_ROUTES[i].key)
                       /\ IsKnown(CONTEXT_ROUTES[i].doc)}
      from_routes == [n \in 1..Cardinality(routed_idx) |->
                        CONTEXT_ROUTES[CHOOSE i \in routed_idx :
                          Cardinality({j \in routed_idx : j < i}) = n - 1].doc]
      candidate_docs ==
        IF from_allowed # << >> THEN from_allowed
        ELSE IF from_routes # << >> THEN from_routes
        ELSE FromHits(hs, << >>)
      Rank0(d) == SortKey(d) = 0
      Rank1(d) == SortKey(d) = 1
      Rank2(d) == SortKey(d) = 2
  IN SelectSeq(candidate_docs, Rank0) \o SelectSeq(candidate_docs, Rank1)
       \o SelectSeq(candidate_docs, Rank2)

\* re.findall(r"\*([^*]+?)\*", s) resumed at offset from: the groups
RECURSIVE PhraseMatches(_, _)
PhraseMatches(s, from) ==
  LET a == Find(s, <<"*">>, from)
      b == Find(s, <<"*">>, a + 1)
  IN IF a < 0 \/ b < 0 THEN << >>
     ELSE IF b = a + 1 THEN PhraseMatches(s, a + 1)
     ELSE <<Slice(s, a + 1, b)>> \o PhraseMatches(s, b + 1)

\* re.sub(r"\*[^*]+?\*", " ", s) resumed at offset from
RECURSIVE WithoutPhrases(_, _)
WithoutPhrases(s, from) ==
  LET a == Find(s, <<"*">>, from)
      b == Find(s, <<"*">>, a + 1)
  IN IF a < 0 \/ b < 0 THEN Slice(s, from, Len(s))
     ELSE IF b = a + 1 THEN Slice(s, from, a + 1) \o WithoutPhrases(s, a + 1)
     ELSE Slice(s, from, a) \o <<" ">> \o WithoutPhrases(s, b + 1)

\* phrases: the '*...*' groups of two words or more, whitespace collapsed
PhrasesOf(lwquery) ==
  LET raw == PhraseMatches(lwquery, 0)
      cleaned == [i \in DOMAIN raw |-> Join(SplitWs(raw[i]), <<" ">>)]
      TwoWords(c) == c # << >> /\ Len(SplitWs(c)) >= 2
  IN SelectSeq(cleaned, TwoWords)

\* search_words: the remaining words longer than one character that are a
\* routing key or no base stop word
SearchWordsOf(lwquery) ==
  LET all_words == SelectSeq(SplitWs(WithoutPhrases(lwquery, 0)),
                             LAMBDA w : Len(w) > 1)
      Keep(w) == (\E i \in DOMAIN CONTEXT_ROUTES : CONTEXT_ROUTES[i].key = w)
                 \/ w \notin base_stop_words
  IN SelectSeq(all_words, Keep)

(***************************************************************************)
(* Fragment Assembler: _sort_and_return_fragments                          *)
(***************************************************************************)
MaxSize == 2147483647

\* int(part) of a run of digits
RECURSIVE DigitsToInt(_)
DigitsToInt(ds) ==
  IF ds = << >> THEN 0
  ELSE 10 * DigitsToInt(SubSeq(ds, 1, Len(ds) - 1))
       + (CHOOSE v \in 0..9 :
            <<"0", "1", "2", "3", "4", "5", "6", "7", "8", "9">>[v + 1] = ds[Len(ds)])

\* [int(part) for part in re.findall(r"\d+", number)] resumed at offset from
RECURSIVE DigitParts(_, _)
DigitParts(number, from) ==
  LET starts == {i \in from..(Len(number) - 1) : Ch(number, i) \in Digits}
  IN IF starts = {} THEN << >>
     ELSE LET a == SetMin(starts)
              b == DigitRunEnd(number, a)
          IN <<DigitsToInt(Slice(number, a, b))>> \o DigitParts(number, b)

_rule_number_sort_key(fragment) ==
  LET parts == DigitParts(fragment.rule_number, 0)
  IN IF parts = << >> THEN <<MaxSize>> ELSE parts

\* Python's order on tuples of integers: a <= b
RECURSIVE TupleLE(_, _)
TupleLE(a, b) ==
  IF a = << >> THEN TRUE
  ELSE IF b = << >> THEN FALSE
  ELSE IF Head(a) # Head(b) THEN Head(a) < Head(b)
  ELSE TupleLE(Tail(a), Tail(b))

\* the key of a sort by the rule number alone
FragmentLE_by_rule_number(f, g) ==
  TupleLE(_rule_number_sort_key(f), _rule_number_sort_key(g))

\* the key (_position, rule number tuple) of list.sort: f <= g
FragmentLE(f, g) ==
  \/ f.position < g.position
  \/ /\ f.position = g.position
     /\ TupleLE(_rule_number_sort_key(f), _rule_number_sort_key(g))

\* list.sort is stable: an element goes after the elements not greater
RECURSIVE StableSort(_, _)
StableSort(todo, done) ==
  IF todo = << >> THEN done
  ELSE LET x == Head(todo)
           n == Cardinality({i \in DOMAIN done : FragmentLE(done[i], x)})
       IN StableSort(Tail(todo),
                     SubSeq(done, 1, n) \o <<x>> \o SubSeq(done, n + 1, Len(done)))

\* the fragments returned in the order they were collected
_sort_and_return_fragments_unsorted(frags) == frags

_sort_and_return_fragments(frags) == StableSort(frags, << >>)

(***************************************************************************)
(* Inputs: documents, queries, hits                                        *)
(***************************************************************************)
MaxLines == 6

MaxKeywordLines == 3

MaxFragmentsArg == 3

\* a file of the structured directory
File(text) == [exists |-> TRUE, readable |-> TRUE, content |-> text]

Missing == [exists |-> FALSE, readable |-> FALSE, content |-> << >>]

\* a file that is there but that open() or read() refuses (bytes that are
\* not UTF-8, no permission): the call raises
Unreadable == [exists |-> TRUE, readable |-> FALSE, content |-> << >>]

\* the two bodies of a document line: the keyword (capitalised, so that
\* every hit needs the lower-casing) and a neutral word
KeywordBody == <<"A", "a", " ", "b">>

NeutralBody == <<"b", "b">>

Shape(pre, post) == [pre |-> pre, post |-> post]

\* skeletons: the line shapes of a document, a body goes between pre and post
Skeletons ==
  { \* sections, a clause with sub-points, a second section
    << Shape(<<"#", " ", "T">>, <<".">>),
       Shape(<<"5", ".", " ">>, << >>),
       Shape(<<"5", ".", "1", ".", " ">>, << >>),
       Shape(<<"5", ".", "2", ".", " ">>, << >>),
       Shape(<<"6", ".", " ">>, << >>),
       Shape(<<"#", " ", "U">>, << >>),
       Shape(<<"7", ".", " ">>, <<".">>) >>,
    \* a clause whose body is a '-' list, then the next clause
    << Shape(<<"5", ".", " ">>, << >>),
       Shape(<<"-", " ">>, <<".">>),
       Shape(<<"-", " ">>, <<".">>),
       Shape(<<"-", " ">>, <<".">>),
       Shape(<<"6", ".", " ">>, <<".">>),
       Shape(<<"-", " ">>, <<".">>),
       Shape(<<"7", ".", " ">>, << >>) >>,
    \* a preamble and a numbered list whose lines end with '.'
    << Shape(<<"#", " ">>, <<".">>),
       Shape(<< >>, << >>),
       Shape(<<"1", ".", " ">>, <<".">>),
       Shape(<<"2", ".", " ">>, <<".">>),
       Shape(<<"3", ".", " ">>, << >>),
       Shape(<<"#", " ">>, << >>),
       Shape(<<"4", ".", " ">>, <<".">>) >>,
    \* clauses first, a '-' list later in the same section
    << Shape(<<"#", " ", "T", " ">>, << >>),
       Shape(<<"5", ".", " ">>, << >>),
       Shape(<<"5", ".", "1", ".", " ">>, << >>),
       Shape(<<"-", " ">>, <<".">>),
       Shape(<<"-", " ">>, << >>),
       Shape(<<"6", ".", " ">>, << >>),
       Shape(<<"-", " ">>, <<".">>) >>,
    \* a sub-point whose body is a '-' list, every item ends with '.'
    << Shape(<<"#", " ", "T", " ">>, << >>),
       Shape(<<"5", ".", " ">>, << >>),
       Shape(<<"5", ".", "1", ".", " ">>, << >>),
       Shape(<<"-", " ">>, <<".">>),
       Shape(<<"-", " ">>, <<".">>),
       Shape(<<"5", ".", "2", ".", " ">>, << >>),
       Shape(<<"6", ".", " ">>, << >>) >> }

\* the text of a skeleton cut to n lines, the keyword on the lines of kw
TextOf(skeleton, n, kw) ==
  Join([i \in 1..n |->
          skeleton[i].pre \o (IF i \in kw THEN KeywordBody ELSE NeutralBody)
            \o skeleton[i].post],
       <<"\n">>)

DocumentTexts ==
  UNION {{TextOf(sk, n, kw) :
            kw \in {K \in SUBSET (1..n) : Cardinality(K) <= MaxKeywordLines}} :
         <<sk, n>> \in {p \in Skeletons \X (1..MaxLines) : p[2] <= Len(p[1])}}

\* a few fixed texts for the runs that vary the call's other arguments
\* a text in which occurrences of the keyword overlap
OverlapText ==
  <<"#", " ", "T", ".", "\n", "5", ".", " ", "A", "a", "a", " ", "a", "a",
    "a", "a", "\n", "6", ".", " ", "b", "b">>

SmallTexts ==
  { TextOf(sk, 3, {2, 3}) : sk \in Skeletons } \cup {OverlapText}

Word_aa == <<"a", "a">>

Word_Aa == <<"A", "a">>

Word_korona == <<"K", "o", "r", "o", "n", "a">>

Word_piramid == <<"p", "i", "r", "a", "m", "i", "d">>

Word_oborud == <<"o", "b", "o", "r", "u", "d">>

Word_igra == <<"i", "g", "r", "a">>

Phrase_aa_b == <<"*", "a", "a", " ", " ", "b", "*">>

\* a single word between the phrase markers
Starred_aa == <<"*", "a", "a", "*">>

Queries ==
  { Word_aa,
    Word_Aa \o <<" ">> \o Word_korona,
    Word_piramid \o <<" ">> \o Word_oborud \o <<" ">> \o Word_aa,
    Phrase_aa_b \o <<" ">> \o Word_igra,
    Word_igra \o <<" ">> \o <<"b">>,
    Starred_aa \o <<" ">> \o Word_Aa }

Hit(source) == [source |-> source]

HitLists ==
  { << >>,
    <<Hit("faq.txt")>>,
    <<Hit(CORONA_RULES), Hit("faq.txt"), Hit(CORONA_RULES)>>,
    <<Hit(TECHNICAL_REQUIREMENTS), Hit(INTERNATIONAL_RULES)>> }

AllowedLists ==
  { << >>,
    <<"faq.txt">>,
    <<TECHNICAL_REQUIREMENTS, "faq.txt", INTERNATIONAL_RULES>>,
    <<CORONA_RULES, TECHNICAL_REQUIREMENTS>> }

(***************************************************************************)
(* State                                                                   *)
(***************************************************************************)
VARIABLES
  files,                  \* the structured directory: document -> file
  hits, query, allowed_sources, max_fragments,   \* the call's arguments
  pc,                     \* "call", "docs", "scan", "done" or "error"
  search_words, phrases,  \* the decomposed query
  candidate_docs,         \* the router's answer
  doc_index,              \* position of the loop over candidate_docs
  content_with_newlines, all_points, relevant_positions,
  processed_blocks,       \* the numbers already covered in this document
  locals,                 \* locals of the technical-requirements collector
  fragments,              \* the list under construction
  result                  \* the returned list

vars == <<files, hits, query, allowed_sources, max_fragments, pc, search_words,
          phrases, candidate_docs, doc_index, content_with_newlines, all_points,
          relevant_positions, processed_blocks, locals, fragments, result>>

args == <<files, hits, query, allowed_sources, max_fragments>>

\* the conversation of a session: the FSM data of src/src/handlers and the
\* user's profile
VARIABLES
  phase,                  \* 1 questions, 2 policy, 3 questionnaire, 4 booking
  policy_shown, policy_accepted, intent_selection_shown,
  anketa_started,
  anketa_question,        \* 1..5, 0 stands for None
  anketa_retry_count,
  phase4_window_shown,
  phase4_state,           \* "waiting_name", "waiting_phone" or "None"
  status, politic,        \* fields of the user's profile
  windows,                \* the windows sent to the chat: their buttons stay
  old_status_before_intent,  \* FSM data, "" when absent
  status_before_intent,   \* the status when the intent window was first shown
  consulted               \* what the last handler asked of search, LLM, store

dialogue_vars == <<phase, policy_shown, policy_accepted, intent_selection_shown,
                   anketa_started, anketa_question, anketa_retry_count,
                   phase4_window_shown, phase4_state, status, politic, windows>>

intent_memory == <<old_status_before_intent, status_before_intent>>

session_vars == <<dialogue_vars, intent_memory, consulted>>

\* the primary-source window of a session: more FSM data and the chat
VARIABLES
  primary_sources,              \* the cached list of fragments
  primary_source_index,
  primary_source_is_rules,
  primary_source_main_source,   \* a document, "None" stands for None
  primary_source_hits,          \* the hits of the answer, kept for 'open'
  primary_source_figure_messages,  \* the figure messages under the window
  chat_history,                 \* the last messages saved for the user
  open_button,                  \* an answer with the open button is in the chat
  window,                       \* the window last sent or edited
  requested_index,              \* the index of the goto handled last
  handled,                      \* what the handler that ran last did
  reinvoked                     \* the call of the extractor it made, if any

navigation_vars == <<primary_sources, primary_source_index,
                     primary_source_is_rules, primary_source_main_source,
                     primary_source_hits, primary_source_figure_messages,
                     chat_history, open_button, window, requested_index,
                     handled, reinvoked>>

\* two invocations of the extractor in flight at once
VARIABLES
  calls,                  \* invocation -> its frame: arguments and locals
  lists,                  \* the list objects: object -> list of fragments
  block_sets,             \* the set objects: object -> set of numbers
  overlapped              \* an invocation ran while the other was under way

pair_vars == <<calls, lists, block_sets, overlapped>>

\* what a call of the extractor leaves alone
beyond_call == <<session_vars, navigation_vars, pair_vars>>

\* what the handlers of the conversation leave alone
beyond_session == <<vars, navigation_vars, pair_vars>>

\* what the handlers of the primary-source window leave alone
beyond_navigation == <<vars, session_vars, pair_vars>>

\* what two invocations in flight leave alone: the directory is only read
beyond_pair == <<vars, session_vars, navigation_vars>>

Invocations == 1..2

\* the objects an invocation can hold; 0 stands for a name not bound yet
Objects == 1..2

\* no invocation in flight
NoPair ==
  /\ calls = << >>
  /\ lists = [o \in Objects |-> << >>]
  /\ block_sets = [o \in Objects |-> {}]
  /\ overlapped = FALSE

\* no window in the chat
NoWindow == [open |-> FALSE, index |-> 0, buttons |-> << >>]

\* the handler that ran last made no call of the extractor
NoExtraction == [ran |-> FALSE, query |-> << >>, allowed_sources |-> << >>]

\* a session that has stored no fragments yet
FreshNavigation ==
  /\ primary_sources = << >>
  /\ primary_source_index = 0
  /\ primary_source_is_rules = FALSE
  /\ primary_source_main_source = "None"
  /\ primary_source_hits = << >>
  /\ primary_source_figure_messages = << >>
  /\ chat_history = << >>
  /\ reinvoked = NoExtraction
  /\ open_button = FALSE
  /\ window = NoWindow
  /\ requested_index = 0
  /\ handled = "None"

\* the values of the profile's status and politic fields, transliterated
Status_training == "Obuchenie"

Status_consultation == "Konsultacija"

Status_reader == "Chitatel"

Politic_yes == "DA"

Politic_no == "NET"

\* a session before its first update: no FSM data, a new profile
\* a handler that reaches neither the search, the LLM nor the extractor and
\* leaves the cached fragments alone
NoConsultation ==
  [search |-> FALSE, llm |-> FALSE, extraction |-> FALSE, stored |-> FALSE]

FreshSession ==
  /\ phase = 1
  /\ policy_shown = FALSE
  /\ policy_accepted = FALSE
  /\ intent_selection_shown = FALSE
  /\ anketa_started = FALSE
  /\ anketa_question = 0
  /\ anketa_retry_count = 0
  /\ phase4_window_shown = FALSE
  /\ phase4_state = "None"
  /\ status = Status_reader
  /\ politic = ""
  /\ windows = {}
  /\ old_status_before_intent = ""
  /\ status_before_intent = ""
  /\ consulted = NoConsultation

InitCall ==
  /\ pc = "call"
  /\ search_words = << >>
  /\ phrases = << >>
  /\ candidate_docs = << >>
  /\ doc_index = 0
  /\ content_with_newlines = << >>
  /\ all_points = << >>
  /\ relevant_positions = << >>
  /\ processed_blocks = {}
  /\ locals = UnboundLocals
  /\ fragments = << >>
  /\ result = << >>

\* many documents, one document type per call
InitDocuments ==
  /\ \E text \in DocumentTexts : files = [d \in Range(ALLOWED_SOURCES) |-> File(text)]
  /\ query = Word_aa
  /\ hits = << >>
  /\ allowed_sources \in {<<d>> : d \in Range(ALLOWED_SOURCES)}
  /\ max_fragments \in 1..MaxFragmentsArg

\* few documents, many routings
InitRouting ==
  /\ \E text \in SmallTexts, gone \in Range(ALLOWED_SOURCES) \cup {"none"},
        bad \in {Missing, Unreadable} :
       files = [d \in Range(ALLOWED_SOURCES) |-> IF d = gone THEN bad ELSE File(text)]
  /\ query \in Queries
  /\ hits \in HitLists
  /\ allowed_sources \in AllowedLists
  /\ max_fragments \in 1..MaxFragmentsArg

Init ==
  /\ InitCall /\ (InitDocuments \/ InitRouting)
  /\ FreshSession /\ FreshNavigation /\ NoPair

(***************************************************************************)
(* get_primary_source_fragments and _collect_fragments                     *)
(***************************************************************************)
\* entry: decompose the query, route, return [] when no document is left
GetPrimarySourceFragments ==
  /\ UNCHANGED beyond_call
  /\ pc = "call"
  /\ LET lwquery == Lower(query)
         docs == _collect_candidate_docs(hits, allowed_sources, lwquery)
     IN /\ phrases' = PhrasesOf(lwquery)
        /\ search_words' = SearchWordsOf(lwquery)
        /\ candidate_docs' = docs
        /\ IF docs = << >>
           THEN pc' = "done" /\ doc_index' = 0
           ELSE pc' = "docs" /\ doc_index' = 1
  /\ result' = << >>
  /\ fragments' = << >>
  /\ UNCHANGED <<args, content_with_newlines, all_points, relevant_positions,
                 processed_blocks, locals>>

\* after a collector returned frags: return them sorted when the cap is
\* reached, else go on with the next document
AfterCollector(frags) ==
  /\ fragments' = frags
  /\ IF Len(frags) >= max_fragments
     THEN /\ pc' = "done"
          /\ result' = _sort_and_return_fragments(frags)
          /\ doc_index' = doc_index
     ELSE /\ pc' = "docs"
          /\ result' = result
          /\ doc_index' = doc_index + 1

\* os.path.exists(path) of the loop over candidate_docs
PathExists(fs, doc) == doc \in DOMAIN fs /\ fs[doc].exists

\* the documents the dispatch of the loop has a collector for
IsCollected(doc) ==
  doc \in {TECHNICAL_REQUIREMENTS, CORONA_RULES, INTERNATIONAL_RULES}

\* the body of the loop over candidate_docs up to the collector's own loop:
\* a path that does not exist is skipped, open() and read() have no handler
OpenDocument ==
  /\ UNCHANGED beyond_call
  /\ pc = "docs"
  /\ doc_index <= Len(candidate_docs)
  /\ LET doc == candidate_docs[doc_index]
         cwn == content_with_newlines_of(files[doc].content)
         positions == relevant_positions_of(
                        cwn,
                        IF doc = INTERNATIONAL_RULES
                        THEN [i \in DOMAIN search_words |-> Lower(search_words[i])]
                        ELSE search_words,
                        phrases)
     IN IF ~PathExists(files, doc) \/ (files[doc].readable /\ ~IsCollected(doc))
        THEN /\ doc_index' = doc_index + 1
             /\ UNCHANGED <<pc, content_with_newlines, all_points,
                            relevant_positions, processed_blocks, locals,
                            fragments, result>>
        ELSE IF ~files[doc].readable
        THEN /\ pc' = "error"
             /\ UNCHANGED <<doc_index, content_with_newlines, all_points,
                            relevant_positions, processed_blocks, locals,
                            fragments, result>>
        ELSE /\ content_with_newlines' = cwn
             /\ all_points' = point_pattern(cwn)
             /\ relevant_positions' = positions
             /\ processed_blocks' = {}
             /\ locals' = UnboundLocals
             /\ IF positions = << >>
                THEN AfterCollector(fragments)
                ELSE /\ pc' = "scan"
                     /\ UNCHANGED <<doc_index, fragments, result>>
  /\ UNCHANGED <<args, search_words, phrases, candidate_docs>>

\* the loop over candidate_docs is over
ReturnFragments ==
  /\ UNCHANGED beyond_call
  /\ pc = "docs"
  /\ doc_index > Len(candidate_docs)
  /\ pc' = "done"
  /\ result' = _sort_and_return_fragments(fragments)
  /\ UNCHANGED <<args, search_words, phrases, candidate_docs, doc_index,
                 content_with_newlines, all_points, relevant_positions,
                 processed_blocks, locals, fragments>>

\* the end of one iteration of a collector: return at the cap (returns is
\* TRUE where the iteration reaches the check), or when no position is left
EndIteration(frags, returns) ==
  /\ relevant_positions' = Tail(relevant_positions)
  /\ IF (returns /\ Len(frags) >= max_fragments) \/ Tail(relevant_positions) = << >>
     THEN AfterCollector(frags)
     ELSE /\ fragments' = frags
          /\ UNCHANGED <<pc, doc_index, result>>

\* the end of an iteration of the corona and international collectors
IterationDone(out) ==
  /\ processed_blocks' = out.processed
  /\ EndIteration(fragments \o out.emitted, out.emitted # << >>)

\* the end of an iteration of the technical-requirements collector
TechnicalIterationDone(out) ==
  /\ locals' = out.locals
  /\ IF out.error
     THEN /\ pc' = "error"
          /\ UNCHANGED <<relevant_positions, fragments, doc_index, result>>
     ELSE EndIteration(fragments \o out.emitted, out.checks_max)

InternationalStep ==
  /\ UNCHANGED beyond_call
  /\ pc = "scan"
  /\ candidate_docs[doc_index] = INTERNATIONAL_RULES
  /\ IterationDone(InternationalIteration(content_with_newlines, all_points,
       INTERNATIONAL_RULES, search_words, phrases, processed_blocks,
       Head(relevant_positions)))
  /\ UNCHANGED <<args, search_words, phrases, candidate_docs,
                 content_with_newlines, all_points, locals>>

CoronaStep ==
  /\ UNCHANGED beyond_call
  /\ pc = "scan"
  /\ candidate_docs[doc_index] = CORONA_RULES
  /\ IterationDone(CoronaIteration(content_with_newlines, all_points,
       CORONA_RULES, search_words, phrases, processed_blocks,
       Head(relevant_positions)))
  /\ UNCHANGED <<args, search_words, phrases, candidate_docs,
                 content_with_newlines, all_points, locals>>

TechnicalStep ==
  /\ UNCHANGED beyond_call
  /\ pc = "scan"
  /\ candidate_docs[doc_index] = TECHNICAL_REQUIREMENTS
  /\ TechnicalIterationDone(TechnicalIteration(content_with_newlines, all_points,
       TECHNICAL_REQUIREMENTS, search_words, phrases, processed_blocks,
       locals, Head(relevant_positions)))
  /\ UNCHANGED <<args, search_words, phrases, candidate_docs,
                 content_with_newlines, all_points, processed_blocks>>

Next ==
  \/ GetPrimarySourceFragments
  \/ OpenDocument
  \/ ReturnFragments
  \/ InternationalStep
  \/ CoronaStep
  \/ TechnicalStep

Spec == Init /\ [][Next]_vars

(***************************************************************************)
(* Properties                                                              *)
(***************************************************************************)
Returned == pc = "done"

ResultSet == Range(result)

\* the clause number a text opens with, << >> when it opens with none
LeadingNumber(text) ==
  IF NumberEnd(text, 0) >= 0 THEN Slice(text, 0, NumberEnd(text, 0)) ELSE << >>

\* C1: every returned fragment's text begins with the fragment's own
\* rule_number and with no other clause number.
C1_ClauseSelfContainment ==
  Returned =>
    \A f \in ResultSet :
      /\ StartsWith(f.text, f.rule_number)
      /\ LeadingNumber(f.text) = f.rule_number

\* C2: within one call no two returned fragments of the same source
\* document carry the same rule_number.
C2_NoDuplicateClauses ==
  Returned =>
    \A i, j \in DOMAIN result :
      (i # j /\ result[i].source = result[j].source)
        => result[i].rule_number # result[j].rule_number

\* the document text and the clause markers the collectors work on
TextOfDoc(d) == content_with_newlines_of(files[d].content)

PointsOfDoc(d) == point_pattern(TextOfDoc(d))

\* every offset of the document at which a term of the query occurs
TermOffsets(d) ==
  Range(relevant_positions_of(TextOfDoc(d), search_words, phrases))

\* the call reads exactly one document, d, and has returned
SingleDocumentCall(d) ==
  /\ Returned
  /\ candidate_docs = <<d>>
  /\ files[d].exists

\* the next clause marker or section header after clause k, else the end
NextMarker(cwn, pts, k) ==
  LET nxt == {pts[j].pos : j \in {j \in DOMAIN pts : pts[j].pos > pts[k].pos}}
             \cup {i \in SectionMarkerStarts(cwn) : i > pts[k].pos}
  IN IF nxt = {} THEN Len(cwn) ELSE SetMin(nxt)

\* starts of the '-' lines of clause k
ItemStarts(cwn, pts, k) ==
  {i \in (pts[k].pos + 1)..(NextMarker(cwn, pts, k) - 1) :
     Ch(cwn, i - 1) = "\n" /\ Ch(cwn, i) = "-"}

\* end of the '-' item that starts at i: the next item or the next marker
ItemStop(cwn, pts, k, i) ==
  SetMin({j \in ItemStarts(cwn, pts, k) : j > i} \cup {NextMarker(cwn, pts, k)})

\* the span of clause k: up to the end of its last '-' item that ends with a
\* full stop when it has one, else up to the next marker
SpanEnd(cwn, pts, k) ==
  LET closed == {i \in ItemStarts(cwn, pts, k) :
                   EndsWith(Strip(Slice(cwn, i, ItemStop(cwn, pts, k, i))), <<".">>)}
  IN IF closed = {} THEN NextMarker(cwn, pts, k)
     ELSE ItemStop(cwn, pts, k, SetMax(closed))

\* k is a sub-point of the top-level clause n
IsSubpointOf(cwn, pts, n, k) ==
  /\ NumberLevel(pts[n].number) = 1
  /\ NumberLevel(pts[k].number) > 1
  /\ StartsWith(pts[k].number, pts[n].number)
  /\ n < k
  /\ \A j \in (n + 1)..k : NumberLevel(pts[j].number) > 1
  /\ \A i \in SectionMarkerStarts(cwn) : ~(pts[n].pos < i /\ i < pts[k].pos)

\* the query's terms occur in document d, and only inside sub-point k of n
OnlyInSubpoint(d, n, k) ==
  /\ IsSubpointOf(TextOfDoc(d), PointsOfDoc(d), n, k)
  /\ TermOffsets(d) # {}
  /\ \A p \in TermOffsets(d) :
       /\ PointsOfDoc(d)[k].pos <= p
       /\ p < SpanEnd(TextOfDoc(d), PointsOfDoc(d), k)

\* C3: when the query's terms occur only inside the span of one sub-point
\* N.k of a top-level clause N, the call returns a fragment whose rule_number
\* is N.k and no fragment whose rule_number is N (international and corona
\* rules).
C3_SubpointPrecedence ==
  \A d \in {INTERNATIONAL_RULES, CORONA_RULES} :
    SingleDocumentCall(d) =>
      \A n, k \in DOMAIN PointsOfDoc(d) :
        OnlyInSubpoint(d, n, k) =>
          /\ \E f \in ResultSet : f.rule_number = PointsOfDoc(d)[k].number
          /\ \A f \in ResultSet : f.rule_number # PointsOfDoc(d)[n].number

\* clause k's body is a list of '-' items, each ending with a full stop, and
\* the next clause of the same level follows it at once
IsListClause(cwn, pts, k) ==
  /\ k + 1 \in DOMAIN pts
  /\ NumberLevel(pts[k + 1].number) = NumberLevel(pts[k].number)
  /\ NextMarker(cwn, pts, k) = pts[k + 1].pos
  /\ LET body_start == Find(cwn, <<"\n">>, pts[k].pos) + 1
         body == Split(Slice(cwn, body_start, pts[k + 1].pos - 1), "\n")
     IN /\ body_start < pts[k + 1].pos
        /\ \A i \in DOMAIN body :
             StartsWith(body[i], <<"-">>) /\ EndsWith(body[i], <<".">>)

\* C4: the fragment returned for a clause whose body is a list of '-' items
\* each ending with a full stop, followed at once by the next clause of the
\* same level, ends at the end of the last list item: its text is the clause
\* with every item, the last one included, and nothing of the next clause.
C4_ListBoundary ==
  Returned =>
    \A f \in ResultSet :
      \A k \in DOMAIN PointsOfDoc(f.source) :
        ( /\ f.rule_number = PointsOfDoc(f.source)[k].number
          /\ f.position = PointsOfDoc(f.source)[k].pos
          /\ IsListClause(TextOfDoc(f.source), PointsOfDoc(f.source), k) )
        => f.text = Slice(TextOfDoc(f.source), f.position,
                          PointsOfDoc(f.source)[k + 1].pos - 1)

\* the clause markers inside a fragment's text, after its first line
LaterMarkers(text) ==
  LET found == point_pattern(<<"\n">> \o text)
  IN {found[i].number : i \in {i \in DOMAIN found : found[i].pos > 1}}

\* C5: a returned fragment stops no later than the next clause marker of
\* equal or higher level of its section: its text holds no section header
\* line and, after its own number, no marker of a sibling or parent-level
\* clause, also when a '-' list occurs later in the section.
C5_FragmentBoundary ==
  Returned =>
    \A f \in ResultSet :
      /\ SectionMarkerStarts(f.text) = {}
      /\ f.rule_number # << >> =>
           \A number \in LaterMarkers(f.text) :
             NumberLevel(number) > NumberLevel(f.rule_number)

\* the text holds one of the query's keywords, or all of its phrases
IsRelevant(text) ==
  \/ \E i \in DOMAIN search_words : Contains(Lower(text), search_words[i])
  \/ /\ phrases # << >>
     /\ \A i \in DOMAIN phrases : Contains(Lower(text), phrases[i])

\* C6: every returned fragment's text, compared case-insensitively, contains
\* at least one keyword of the query or all of its phrases, for the three
\* document types.
C6_Relevance ==
  Returned => \A f \in ResultSet : IsRelevant(f.text)

\* a call returned a list/preamble fragment of the technical requirements
\* next to a clause of another document
C6_Witness ==
  /\ Returned
  /\ \E f, g \in ResultSet :
       /\ f.source = TECHNICAL_REQUIREMENTS
       /\ g.source # TECHNICAL_REQUIREMENTS
       /\ f.text # Lower(f.text)

\* C7: the returned list has non-decreasing _position values on every
\* return path.
C7_DocumentOrder ==
  Returned =>
    \A i, j \in DOMAIN result :
      i < j => result[i].position <= result[j].position

\* a call returned at least two fragments that were collected out of order
C7_Witness ==
  /\ Returned
  /\ Len(result) >= 2
  /\ \E i, j \in DOMAIN fragments :
       i < j /\ fragments[i].position > fragments[j].position

\* the title of the nearest section header at or before offset p, one
\* trailing period removed; << >> when no header precedes p
SectionTitleAt(cwn, p) ==
  LET hs == {i \in SectionHeaderStarts(cwn) : i <= p}
      title == IF hs = {} THEN << >> ELSE Strip(HeaderGroup(cwn, SetMax(hs)))
  IN IF EndsWith(title, <<".">>) THEN Strip(Slice(title, 0, Len(title) - 1))
     ELSE title

\* C8: every returned fragment's section is the title of the nearest section
\* header at or before the fragment's _position, with the trailing period
\* stripped, for the three document types.
C8_SectionConsistency ==
  Returned =>
    \A f \in ResultSet :
      f.section = SectionTitleAt(TextOfDoc(f.source), f.position)

\* C9: for max_fragments >= 1 the returned list has at most max_fragments
\* elements, whichever branch produced the fragments.
C9_FragmentCap ==
  Returned => Len(result) <= max_fragments

\* the three sources of the router, as sets of known documents
KnownAllowed == {d \in Range(allowed_sources) : IsKnown(d)}

RoutedByKeyword ==
  {CONTEXT_ROUTES[i].doc :
     i \in {i \in DOMAIN CONTEXT_ROUTES :
              /\ Contains(Lower(query), CONTEXT_ROUTES[i].key)
              /\ IsKnown(CONTEXT_ROUTES[i].doc)}}

KnownHits == {d \in {hits[i].source : i \in DOMAIN hits} : IsKnown(d)}

\* C10: the router returns exactly the known documents of allowed_sources
\* when there is one; otherwise the documents whose routing keyword occurs
\* in the lower-cased query; only when that is empty too, the known
\* documents among the hits.
C10_RouterPrecedence ==
  pc # "call" =>
    Range(candidate_docs) =
      IF KnownAllowed # {} THEN KnownAllowed
      ELSE IF RoutedByKeyword # {} THEN RoutedByKeyword
      ELSE KnownHits

\* the router answered from allowed_sources although a routing keyword and
\* the hits name other known documents
C10_Witness ==
  /\ pc # "call"
  /\ KnownAllowed # {}
  /\ RoutedByKeyword \ KnownAllowed # {}
  /\ KnownHits \ KnownAllowed # {}

(***************************************************************************)
(* The order of the router's answer                                        *)
(***************************************************************************)
\* the priority the documents are to be read in
DocumentPriority(doc) ==
  IF doc = INTERNATIONAL_RULES THEN 0
  ELSE IF doc = CORONA_RULES THEN 1
  ELSE 2

\* the documents the router found, in the order it found them: the known
\* allowed documents, else the routed ones in the order of CONTEXT_ROUTES,
\* else the known sources of the hits in hit order
FoundOrder ==
  IF KnownAllowed # {} THEN SelectSeq(allowed_sources, IsKnown)
  ELSE IF RoutedByKeyword # {}
       THEN SelectSeq([i \in DOMAIN CONTEXT_ROUTES |-> CONTEXT_ROUTES[i].doc],
                      LAMBDA d : d \in RoutedByKeyword)
       ELSE SelectSeq([i \in DOMAIN hits |-> hits[i].source], IsKnown)

\* C11: the list the router returns is ordered by document priority, the
\* international rules first, then the corona rules, then any other
\* document, whatever the order of allowed_sources, of the routing keywords
\* and of the hits
C11_RouterOrder ==
  pc # "call" =>
    \A i, j \in DOMAIN candidate_docs :
      i < j => DocumentPriority(candidate_docs[i]) <= DocumentPriority(candidate_docs[j])

\* the router found a lower-priority document before a higher-priority one
C11_Witness ==
  /\ pc # "call"
  /\ Len(candidate_docs) >= 2
  /\ \E i, j \in DOMAIN FoundOrder :
       i < j /\ DocumentPriority(FoundOrder[i]) > DocumentPriority(FoundOrder[j])

(***************************************************************************)
(* A call that names no known document                                     *)
(***************************************************************************)
\* neither allowed_sources nor a routing keyword nor a hit names a known
\* document
NoKnownDocument ==
  /\ KnownAllowed = {}
  /\ RoutedByKeyword = {}
  /\ KnownHits = {}

\* C12: when no allowed source, no routing keyword and no hit names a known
\* document, the router returns the empty list and the call returns the
\* empty list without reading any document
C12_EmptyRoute ==
  (NoKnownDocument /\ pc # "call") =>
    /\ candidate_docs = << >>
    /\ pc = "done"
    /\ result = << >>
    /\ doc_index = 0
    /\ content_with_newlines = << >>

\* the call returned although allowed_sources and the hits named documents,
\* none of them known
C12_Witness ==
  /\ NoKnownDocument
  /\ allowed_sources # << >>
  /\ hits # << >>
  /\ pc = "done"

(***************************************************************************)
(* A candidate document whose text is missing or cannot be read            *)
(***************************************************************************)
\* the loop over candidate_docs is at a document whose file is missing or
\* cannot be read
AtBadDocument ==
  /\ pc = "docs"
  /\ doc_index <= Len(candidate_docs)
  /\ \/ ~PathExists(files, candidate_docs[doc_index])
     \/ ~files[candidate_docs[doc_index]].readable

\* C13: a candidate document whose text is missing or cannot be read is
\* skipped: the loop goes on with the next candidate, the fragments of the
\* other documents are kept and no error reaches the caller
C13_BadDocumentSkipped ==
  [][AtBadDocument =>
       /\ pc' = "docs"
       /\ doc_index' = doc_index + 1
       /\ fragments' = fragments]_vars

(***************************************************************************)
(* The outcome of a call                                                   *)
(***************************************************************************)
\* every file of the structured directory that is there can be read
AllReadable ==
  \A d \in DOMAIN files : files[d].exists => files[d].readable

\* C14: a call never ends with an error: for every query and every
\* document content (a technical-requirements document whose first matched
\* clause line does not end with a period included) the outcome is a list
\* of fragments
C14_NoError ==
  AllReadable => pc # "error"

(***************************************************************************)
(* The position locator                                                    *)
(***************************************************************************)
\* the offsets a left-to-right scan of text for term records: an occurrence
\* is recorded unless it overlaps an occurrence recorded before it
ScanOffsets(text, term) ==
  LET Recorded[p \in 0..Len(text)] ==
        /\ MatchAt(text, term, p)
        /\ \A q \in Max2(0, p - Len(term) + 1)..(p - 1) : ~Recorded[q]
  IN {p \in 0..Len(text) : Recorded[p]}

\* the loop over candidate_docs is at a document it reads
AtReadDocument ==
  /\ pc = "docs"
  /\ doc_index <= Len(candidate_docs)
  /\ PathExists(files, candidate_docs[doc_index])
  /\ files[candidate_docs[doc_index]].readable
  /\ IsCollected(candidate_docs[doc_index])

\* C20: for every document text, keyword list and phrase list the position
\* locator yields exactly the start offsets found by scanning the
\* lower-cased text left to right for each term and recording every
\* non-overlapping occurrence, sorted ascending and without duplicates
C20_PositionLocator ==
  [][AtReadDocument =>
       /\ Range(relevant_positions') =
            UNION {ScanOffsets(Lower(content_with_newlines'), term) :
                     term \in Range(search_words) \cup Range(phrases)}
       /\ \A i, j \in DOMAIN relevant_positions' :
            i < j => relevant_positions'[i] < relevant_positions'[j]]_vars

\* a document is being scanned in which an occurrence of a term overlaps a
\* recorded one and is not recorded itself
C20_Witness ==
  /\ pc = "scan"
  /\ Len(relevant_positions) >= 2
  /\ \E term \in Range(search_words) \cup Range(phrases) :
       \E p \in 0..Len(content_with_newlines) :
         /\ MatchAt(Lower(content_with_newlines), term, p)
         /\ p \notin ScanOffsets(Lower(content_with_newlines), term)

(***************************************************************************)
(* A match in the intro text of a clause that has sub-points               *)
(***************************************************************************)
\* the sub-points of the top-level clause n
SubpointsOf(cwn, pts, n) ==
  {k \in DOMAIN pts : IsSubpointOf(cwn, pts, n, k)}

\* the query's terms occur in document d, and only in the intro text of
\* clause n: at or after its number and before its first sub-point
OnlyInIntro(d, n) ==
  /\ SubpointsOf(TextOfDoc(d), PointsOfDoc(d), n) # {}
  /\ TermOffsets(d) # {}
  /\ \A p \in TermOffsets(d) :
       /\ PointsOfDoc(d)[n].pos <= p
       /\ \A k \in SubpointsOf(TextOfDoc(d), PointsOfDoc(d), n) :
            p < PointsOfDoc(d)[k].pos

\* C18: when the nearest clause C at or above a match offset has sub-points
\* and the offset lies before C's first sub-point, in C's own intro text,
\* the clause returned for the match is C itself, not a sub-point
\* (international and corona rules)
C18_IntroBelongsToParent ==
  \A d \in {INTERNATIONAL_RULES, CORONA_RULES} :
    SingleDocumentCall(d) =>
      \A n \in DOMAIN PointsOfDoc(d) :
        OnlyInIntro(d, n) =>
          /\ \E f \in ResultSet : f.rule_number = PointsOfDoc(d)[n].number
          /\ \A f \in ResultSet : f.rule_number = PointsOfDoc(d)[n].number

(***************************************************************************)
(* A match in the text before the first clause of a section                *)
(***************************************************************************)
\* the start of the header line of the section of offset p, -1 without one
HeaderOf(cwn, p) ==
  SetMax({i \in SectionHeaderStarts(cwn) : i <= p} \cup {-1})

\* the first offset after the header line of the section of offset p
ContentStartOf(cwn, p) == LineEnd(cwn, HeaderOf(cwn, p)) + 1

\* the clauses of the section of offset p
ClausesOfSection(cwn, pts, p) ==
  {k \in DOMAIN pts :
     /\ pts[k].pos > HeaderOf(cwn, p)
     /\ \A i \in SectionHeaderStarts(cwn) :
          i > HeaderOf(cwn, p) => pts[k].pos < i}

\* offset p lies in the content of a section that has clauses, before the
\* number of every one of them
PrecedesClauses(cwn, pts, p) ==
  /\ HeaderOf(cwn, p) >= 0
  /\ ContentStartOf(cwn, p) <= p
  /\ ClausesOfSection(cwn, pts, p) # {}
  /\ \A k \in ClausesOfSection(cwn, pts, p) : p < pts[k].pos

\* the text from the section's content start to its first clause
PreambleText(cwn, pts, p) ==
  Strip(Slice(cwn, ContentStartOf(cwn, p),
              SetMin({pts[k].pos : k \in ClausesOfSection(cwn, pts, p)})))

\* the first clause of the section of p is a list: its line ends with a
\* period
FirstClauseIsList(cwn, pts, p) ==
  IsListItem(cwn, SetMin({pts[k].pos : k \in ClausesOfSection(cwn, pts, p)}))

\* C19: when a match offset precedes every clause number of its section,
\* the call returns a preamble fragment that starts at the section's
\* content start and spans to the first clause of the section when that
\* clause is not a list, or further, through the trailing list, when it is;
\* for each of the three document types
C19_Preamble ==
  \A d \in Range(ALLOWED_SOURCES) :
    SingleDocumentCall(d) =>
      \A p \in TermOffsets(d) :
        PrecedesClauses(TextOfDoc(d), PointsOfDoc(d), p) =>
          \E f \in ResultSet :
            /\ f.position = ContentStartOf(TextOfDoc(d), p)
            /\ StartsWith(f.text, PreambleText(TextOfDoc(d), PointsOfDoc(d), p))
            /\ ~FirstClauseIsList(TextOfDoc(d), PointsOfDoc(d), p) =>
                 f.text = PreambleText(TextOfDoc(d), PointsOfDoc(d), p)

(***************************************************************************)
(* The conversation of a session (src/src/handlers/faq.py and policy.py)   *)
(***************************************************************************)
\* the kinds of text a message carries, as _process_faq_query tells them
\* apart: empty, a greeting, a text with an intent keyword, any other text
TextKinds == {"empty", "greeting", "intent", "plain"}

IntentTypes == {"training", "consultation", "continue"}

Phase4Buttons == {"self", "contacts", "cancel"}

\* no call of the extractor is under way
NoCall ==
  /\ InitCall
  /\ files = [d \in Range(ALLOWED_SOURCES) |-> Missing]
  /\ hits = << >>
  /\ query = << >>
  /\ allowed_sources = << >>
  /\ max_fragments = 20

\* show_policy_window: the window is sent and the session is in phase 2
show_policy_window ==
  /\ policy_shown' = TRUE
  /\ phase' = 2
  /\ windows' = windows \cup {"policy"}

\* _show_intent_selection_window: the profile is reset, the window is sent
_show_intent_selection_window ==
  /\ status' = ""
  /\ politic' = ""
  /\ intent_selection_shown' = TRUE
  /\ old_status_before_intent' = status
  /\ status_before_intent' = IF intent_selection_shown
                             THEN status_before_intent ELSE status
  /\ windows' = windows \cup {"intent"}
  /\ UNCHANGED <<phase, policy_shown, policy_accepted, anketa_started,
                 anketa_question, anketa_retry_count, phase4_window_shown,
                 phase4_state>>

\* _show_phase4_booking_window
_show_phase4_booking_window ==
  /\ phase4_window_shown' = TRUE
  /\ windows' = windows \cup {"phase4"}

\* _normalize_state
_normalize_state ==
  /\ phase' = 1
  /\ phase4_window_shown' = FALSE
  /\ phase4_state' = "None"
  /\ anketa_started' = FALSE
  /\ anketa_question' = 0
  /\ anketa_retry_count' = 0
  /\ intent_selection_shown' = FALSE
  /\ policy_shown' = FALSE
  /\ UNCHANGED <<policy_accepted, status, politic, windows>>

\* phase 3 of _process_faq_query: an answer to the question of the
\* questionnaire; is_valid is the verdict of _validate_anketa_answer
AnketaAnswer(is_valid) ==
  IF ~is_valid
  THEN IF anketa_retry_count + 1 > 2
       THEN /\ phase' = 1
            /\ anketa_started' = FALSE
            /\ anketa_question' = 0
            /\ anketa_retry_count' = 0
            /\ UNCHANGED <<policy_shown, policy_accepted, intent_selection_shown,
                           phase4_window_shown, phase4_state, status, politic,
                           windows>>
       ELSE /\ anketa_retry_count' = anketa_retry_count + 1
            /\ UNCHANGED <<phase, policy_shown, policy_accepted,
                           intent_selection_shown, anketa_started,
                           anketa_question, phase4_window_shown, phase4_state,
                           status, politic, windows>>
  ELSE /\ anketa_retry_count' = 0
       /\ IF anketa_question \in 1..3
          THEN /\ anketa_question' = anketa_question + 1
               /\ UNCHANGED <<phase, phase4_window_shown, windows>>
          ELSE IF anketa_question = 4
          THEN /\ anketa_question' = 5
               /\ phase' = 4
               /\ _show_phase4_booking_window
          ELSE UNCHANGED <<anketa_question, phase, phase4_window_shown, windows>>
       /\ UNCHANGED <<policy_shown, policy_accepted, intent_selection_shown,
                      anketa_started, phase4_state, status, politic>>

\* phase 4 of _process_faq_query with the window answered: the name, then
\* the phone; is_valid tells whether the text matches phone_pattern
Phase4Contacts(is_valid) ==
  /\ IF phase4_state = "waiting_name"
     THEN phase4_state' = "waiting_phone" /\ UNCHANGED <<phase, phase4_window_shown>>
     ELSE IF phase4_state = "waiting_phone" /\ is_valid
     THEN phase' = 1 /\ phase4_state' = "None" /\ phase4_window_shown' = FALSE
     ELSE UNCHANGED <<phase, phase4_state, phase4_window_shown>>
  /\ UNCHANGED <<policy_shown, policy_accepted, intent_selection_shown,
                 anketa_started, anketa_question, anketa_retry_count, status,
                 politic, windows>>

\* the end of _process_faq_query, after the answer of the LLM
AfterAnswer(has_anketa_phrase, has_ready_phrase) ==
  /\ phase' = IF has_ready_phrase THEN 1
              ELSE IF has_anketa_phrase /\ phase < 3 THEN 3
              ELSE phase
  /\ IF has_anketa_phrase /\ phase < 3
     THEN anketa_started' = TRUE /\ anketa_question' = 1
     ELSE UNCHANGED <<anketa_started, anketa_question>>
  /\ UNCHANGED <<policy_shown, policy_accepted, intent_selection_shown,
                 anketa_retry_count, phase4_window_shown, phase4_state, status,
                 politic, windows>>

\* the intent window is active: the message shows it again
IntentWindowActive_never == FALSE

IntentWindowActive == intent_selection_shown /\ phase = 1

\* the path of _process_faq_query behind the guards: the search, and with
\* contexts the LLM, the extractor for a rule query (never in phase 3 or
\* 4) and the storing of the fragments
Consult(answered, extracts) ==
  [search |-> TRUE,
   llm |-> answered,
   extraction |-> answered /\ extracts /\ phase \notin {3, 4},
   stored |-> answered]

\* a return of _process_faq_query before the search
Returns == consulted' = NoConsultation /\ UNCHANGED intent_memory

\* handle_faq and handle_voice_message: a message of the user. answered
\* tells whether the search found contexts, so that the LLM is asked;
\* extracts whether the answer is one of a rule query with allowed sources
ProcessFaqQuery ==
  /\ UNCHANGED beyond_session
  /\ \E text \in TextKinds :
       IF text \in {"empty", "greeting"}
       THEN Returns /\ UNCHANGED dialogue_vars
       ELSE IF policy_shown /\ phase = 2
       THEN /\ show_policy_window
            /\ Returns
            /\ UNCHANGED <<policy_accepted, intent_selection_shown,
                           anketa_started, anketa_question, anketa_retry_count,
                           phase4_window_shown, phase4_state, status, politic>>
       ELSE IF phase = 2 THEN Returns /\ UNCHANGED dialogue_vars
       ELSE IF phase = 3 /\ anketa_started
       THEN Returns /\ \E is_valid \in BOOLEAN : AnketaAnswer(is_valid)
       ELSE IF phase = 3 THEN Returns /\ UNCHANGED dialogue_vars
       ELSE IF phase4_window_shown /\ phase = 4
       THEN /\ _show_phase4_booking_window
            /\ Returns
            /\ UNCHANGED <<phase, policy_shown, policy_accepted,
                           intent_selection_shown, anketa_started,
                           anketa_question, anketa_retry_count, phase4_state,
                           status, politic>>
       ELSE IF phase = 4
       THEN Returns /\ \E is_valid \in BOOLEAN : Phase4Contacts(is_valid)
       ELSE IF IntentWindowActive
       THEN _show_intent_selection_window /\ consulted' = NoConsultation
       ELSE IF text = "intent" /\ phase = 1 /\ ~intent_selection_shown
       THEN _show_intent_selection_window /\ consulted' = NoConsultation
       ELSE /\ UNCHANGED intent_memory
            /\ \/ /\ consulted' = Consult(FALSE, FALSE)
                  /\ UNCHANGED dialogue_vars
               \/ \E extracts, has_anketa_phrase, has_ready_phrase \in BOOLEAN :
                    /\ consulted' = Consult(TRUE, extracts)
                    /\ AfterAnswer(has_anketa_phrase, has_ready_phrase)

\* a button of the intent window
handle_intent_selection ==
  /\ UNCHANGED beyond_session
  /\ Returns
  /\ "intent" \in windows
  /\ \E intent_type \in IntentTypes :
       IF intent_type = "continue"
       THEN /\ phase' = 1
            /\ intent_selection_shown' = FALSE
            /\ anketa_started' = FALSE
            /\ anketa_question' = 0
            /\ UNCHANGED <<policy_shown, policy_accepted, anketa_retry_count,
                           phase4_window_shown, phase4_state, status, politic,
                           windows>>
       ELSE /\ status' = IF intent_type = "training" THEN Status_training
                         ELSE Status_consultation
            /\ intent_selection_shown' = FALSE
            /\ show_policy_window
            /\ UNCHANGED <<policy_accepted, anketa_started, anketa_question,
                           anketa_retry_count, phase4_window_shown, phase4_state,
                           politic>>

\* the "yes" button of the policy window
handle_policy_accept ==
  /\ UNCHANGED beyond_session
  /\ Returns
  /\ "policy" \in windows
  /\ politic' = Politic_yes
  /\ policy_shown' = FALSE
  /\ policy_accepted' = TRUE
  /\ IF status = Status_training
     THEN /\ phase' = 3
          /\ anketa_started' = TRUE
          /\ anketa_question' = 1
          /\ UNCHANGED <<phase4_window_shown, windows>>
     ELSE IF status = Status_consultation
     THEN /\ phase' = 4
          /\ _show_phase4_booking_window
          /\ UNCHANGED <<anketa_started, anketa_question>>
     ELSE /\ phase' = 1
          /\ UNCHANGED <<anketa_started, anketa_question, phase4_window_shown,
                         windows>>
  /\ UNCHANGED <<intent_selection_shown, anketa_retry_count, phase4_state,
                 status>>

\* the "no" button of the policy window
handle_policy_reject ==
  /\ UNCHANGED beyond_session
  /\ Returns
  /\ "policy" \in windows
  /\ politic' = Politic_no
  /\ phase' = 1
  /\ policy_accepted' = FALSE
  /\ policy_shown' = FALSE
  /\ UNCHANGED <<intent_selection_shown, anketa_started, anketa_question,
                 anketa_retry_count, phase4_window_shown, phase4_state, status,
                 windows>>

\* a button of the booking window
handle_phase4_button ==
  /\ UNCHANGED beyond_session
  /\ Returns
  /\ "phase4" \in windows
  /\ \E button_type \in Phase4Buttons :
       IF button_type = "self"
       THEN /\ phase' = 1
            /\ phase4_window_shown' = FALSE
            /\ phase4_state' = "None"
            /\ UNCHANGED <<policy_shown, policy_accepted, intent_selection_shown,
                           anketa_started, anketa_question, anketa_retry_count,
                           status, politic, windows>>
       ELSE IF button_type = "contacts"
       THEN /\ phase4_state' = "waiting_name"
            /\ phase4_window_shown' = FALSE
            /\ UNCHANGED <<phase, policy_shown, policy_accepted,
                           intent_selection_shown, anketa_started,
                           anketa_question, anketa_retry_count, status, politic,
                           windows>>
       ELSE _normalize_state

\* the /cancel command
cmd_cancel ==
  /\ UNCHANGED beyond_session
  /\ Returns
  /\ _normalize_state

NextSession ==
  \/ ProcessFaqQuery
  \/ handle_intent_selection
  \/ handle_policy_accept
  \/ handle_policy_reject
  \/ handle_phase4_button
  \/ cmd_cancel

InitSession == NoCall /\ FreshSession /\ FreshNavigation /\ NoPair

SpecSession == InitSession /\ [][NextSession]_session_vars

\* C16: the phases are traversed in the order intent selection, consent,
\* questionnaire, booking: a session enters phase 3 only from phase 2 with
\* the privacy policy accepted, and enters phase 4 only from phase 2 or 3
\* with the policy accepted
C16_PhaseOrder ==
  [][/\ (phase # 3 /\ phase' = 3) => (phase = 2 /\ politic' = Politic_yes)
     /\ (phase # 4 /\ phase' = 4) =>
          (phase \in {2, 3} /\ politic' = Politic_yes)]_session_vars

(***************************************************************************)
(* The primary-source window (src/src/handlers/faq.py)                     *)
(***************************************************************************)
MaxCached == 3

MaxRequested == 4

\* the lists of fragments a query can store: fragments are told apart by
\* their place in the list
CachedLists == {[i \in 1..n |-> i] : n \in 0..MaxCached}

\* the indexes a goto callback can carry
RequestedIndexes == (0 - MaxRequested)..MaxRequested

\* Python's a % n for n > 0: the result is in 0..n-1, also for a < 0, as
\* with the % of the integers here; the remainder that keeps the sign of a
\* is what the operator would be in other languages
PyMod_truncated(a, n) == IF a >= 0 THEN a % n ELSE 0 - ((0 - a) % n)

PyMod(a, n) == a % n

\* _build_primary_source_markup: the indexes of the "back" and "forward"
\* buttons, no such button for a single fragment
_build_primary_source_markup(current_index, total) ==
  IF total > 1
  THEN <<PyMod(current_index - 1, total), PyMod(current_index + 1, total)>>
  ELSE << >>

\* the window that shows fragment idx of total fragments
WindowAt(idx, total) ==
  [open |-> TRUE, index |-> idx,
   buttons |-> _build_primary_source_markup(idx, total)]

\* the documents whose fragments a window can show
RULE_PRIMARY_ALLOWED_SOURCES ==
  {INTERNATIONAL_RULES, CORONA_RULES, TECHNICAL_REQUIREMENTS}

\* the hits an answer saves and the queries a user can send
SavedHits == <<Hit("faq.txt")>>

UserQueries == { Word_aa, Word_igra \o <<" ">> \o <<"b">> }

\* the figure messages sent under a fragment: _get_figures_for_fragment is
\* a function of the fragment, here every second fragment has a figure
FigureMessages(fragment) == IF fragment % 2 = 0 THEN <<"figure">> ELSE << >>

\* the primary-source keys of the FSM data
Data ==
  [primary_sources |-> primary_sources,
   primary_source_index |-> primary_source_index,
   primary_source_is_rules |-> primary_source_is_rules,
   primary_source_main_source |-> primary_source_main_source,
   primary_source_hits |-> primary_source_hits,
   primary_source_figure_messages |-> primary_source_figure_messages]

\* what data.get(key) gives for the keys that were never set
FreshData ==
  [primary_sources |-> << >>,
   primary_source_index |-> 0,
   primary_source_is_rules |-> FALSE,
   primary_source_main_source |-> "None",
   primary_source_hits |-> << >>,
   primary_source_figure_messages |-> << >>]

\* the data replaced by the keyword arguments, as state.set_data would do:
\* the keys that are not named are lost
UpdateData_replace(data, upd) ==
  [k \in DOMAIN data |-> IF k \in DOMAIN upd THEN upd[k] ELSE FreshData[k]]

\* state.update_data(**upd): the keys named are set, the others are kept
UpdateData(data, upd) ==
  [k \in DOMAIN data |-> IF k \in DOMAIN upd THEN upd[k] ELSE data[k]]

\* the FSM data after the handler
SetData(data) ==
  /\ primary_sources' = data.primary_sources
  /\ primary_source_index' = data.primary_source_index
  /\ primary_source_is_rules' = data.primary_source_is_rules
  /\ primary_source_main_source' = data.primary_source_main_source
  /\ primary_source_hits' = data.primary_source_hits
  /\ primary_source_figure_messages' = data.primary_source_figure_messages

\* save_chat_message, seen through get_chat_history(user_id, limit=5): the
\* last five messages
Saved(history, role, content) ==
  LET all == Append(history, [role |-> role, content |-> content])
  IN IF Len(all) > 5 THEN Tail(all) ELSE all

UserMessages(history) == {i \in DOMAIN history : history[i].role = "user"}

\* the content of the last user message of a history that has one
LastUserMessage(history) == history[SetMax(UserMessages(history))].content

\* the end of _process_faq_query in phase 1: the query and the answer are
\* saved in the history and the primary-source keys are set by upd; shows
\* tells whether the answer carries the open button
Stored(upd, shows, user_q) ==
  /\ SetData(UpdateData(Data, upd))
  /\ open_button' = (open_button \/ shows)
  /\ chat_history' = Saved(Saved(chat_history, "user", user_q), "assistant", << >>)
  /\ handled' = "stored"
  /\ reinvoked' = NoExtraction
  /\ UNCHANGED <<window, requested_index>>

\* the three ways the answer sets the keys: fragments were found for a rule
\* answer; none were found but the answer rests on rule documents; the
\* button is not allowed
StoreFragments ==
  /\ UNCHANGED beyond_navigation
  /\ \E user_q \in UserQueries :
       \/ \E stored \in CachedLists \ {<< >>}, shows \in BOOLEAN,
             main_source \in Range(ALLOWED_SOURCES) \cup {"None"} :
            Stored([primary_sources |-> stored,
                    primary_source_index |-> 0,
                    primary_source_main_source |-> main_source,
                    primary_source_is_rules |-> TRUE,
                    primary_source_hits |-> SavedHits], shows, user_q)
       \/ \E shows \in BOOLEAN,
             main_source \in Range(ALLOWED_SOURCES) \cup {"None"} :
            Stored([primary_sources |-> << >>,
                    primary_source_index |-> 0,
                    primary_source_main_source |-> main_source,
                    primary_source_is_rules |-> TRUE,
                    primary_source_hits |-> SavedHits], shows, user_q)
       \/ Stored([primary_sources |-> << >>,
                  primary_source_index |-> 0,
                  primary_source_main_source |-> "None",
                  primary_source_is_rules |-> FALSE], FALSE, user_q)

\* a handler of the conversation outside phase 1 (a questionnaire answer, a
\* button) saves its reply in the history: the user's text is not saved and
\* the primary-source keys are left alone
SaveAssistantMessage ==
  /\ UNCHANGED beyond_navigation
  /\ chat_history' = Saved(chat_history, "assistant", << >>)
  /\ handled' = "message"
  /\ reinvoked' = NoExtraction
  /\ UNCHANGED <<primary_sources, primary_source_index, primary_source_is_rules,
                 primary_source_main_source, primary_source_hits,
                 primary_source_figure_messages, open_button, window,
                 requested_index>>

\* a handler that answers with an alert and returns
Alert ==
  /\ handled' = "alert"
  /\ UNCHANGED <<primary_sources, primary_source_index, primary_source_is_rules,
                 primary_source_main_source, primary_source_hits,
                 primary_source_figure_messages, chat_history, open_button,
                 window, requested_index>>

\* the end of handle_primary_source_open: fragment 0 of data.primary_sources
\* is shown in a new window, then its figures
ShowFirst(data) ==
  /\ handled' = "open"
  /\ SetData(UpdateData(UpdateData(data,
               [primary_source_index |-> 0,
                primary_source_figure_messages |-> << >>]),
             [primary_source_figure_messages |->
                FigureMessages(data.primary_sources[1])]))
  /\ window' = WindowAt(0, Len(data.primary_sources))
  /\ UNCHANGED <<chat_history, open_button, requested_index>>

\* the open button: fragment 0 of the cached list is shown; an empty cache
\* is filled by a new call of the extractor for the main source and the last
\* user message of the history (found is what the call returns, << >> also
\* stands for a call that raises)
handle_primary_source_open ==
  /\ UNCHANGED beyond_navigation
  /\ open_button
  /\ \E found \in CachedLists :
       IF ~primary_source_is_rules
       THEN Alert /\ reinvoked' = NoExtraction
       ELSE IF primary_sources # << >>
       THEN ShowFirst(Data) /\ reinvoked' = NoExtraction
       ELSE IF \/ primary_source_main_source \notin RULE_PRIMARY_ALLOWED_SOURCES
               \/ UserMessages(chat_history) = {}
       THEN Alert /\ reinvoked' = NoExtraction
       ELSE /\ reinvoked' = [ran |-> TRUE,
                             query |-> LastUserMessage(chat_history),
                             allowed_sources |-> <<primary_source_main_source>>]
            /\ IF found = << >>
               THEN Alert
               ELSE ShowFirst(UpdateData(Data, [primary_sources |-> found,
                                                primary_source_index |-> 0]))

\* a goto callback; is_integer tells whether int() accepts the last part of
\* the callback data, requested is its value
handle_primary_source_goto ==
  /\ UNCHANGED beyond_navigation
  /\ window.open
  /\ reinvoked' = NoExtraction
  /\ \E requested \in RequestedIndexes \cup Range(window.buttons),
        is_integer \in BOOLEAN :
       IF ~primary_source_is_rules \/ primary_sources = << >>
       THEN Alert
       ELSE /\ handled' = "goto"
            /\ requested_index' = IF is_integer THEN requested ELSE 0
            /\ SetData(UpdateData(UpdateData(Data,
                 [primary_source_index |->
                    PyMod(requested_index', Len(primary_sources))]),
                 [primary_source_figure_messages |->
                    FigureMessages(primary_sources[
                      PyMod(requested_index', Len(primary_sources)) + 1])]))
            /\ window' = WindowAt(PyMod(requested_index', Len(primary_sources)),
                                  Len(primary_sources))
            /\ UNCHANGED <<chat_history, open_button>>

\* the close button: the window and its figures are deleted
handle_primary_source_close ==
  /\ UNCHANGED beyond_navigation
  /\ window.open
  /\ SetData(UpdateData(Data, [primary_source_figure_messages |-> << >>]))
  /\ window' = NoWindow
  /\ handled' = "close"
  /\ reinvoked' = NoExtraction
  /\ UNCHANGED <<chat_history, open_button, requested_index>>

NextNavigation ==
  \/ StoreFragments
  \/ SaveAssistantMessage
  \/ handle_primary_source_open
  \/ handle_primary_source_goto
  \/ handle_primary_source_close

InitNavigation == NoCall /\ FreshSession /\ FreshNavigation /\ NoPair

SpecNavigation == InitNavigation /\ [][NextNavigation]_navigation_vars

\* the index in 0..n-1 that differs from r by a multiple of n
Reduced(r, n) ==
  CHOOSE k \in 0..(n - 1) :
    \E q \in (0 - MaxRequested - 1)..(MaxRequested + 1) : r = q * n + k

\* C17: navigation is cyclic and in range: 'open' shows fragment 0 and
\* stores index 0; with a cached list of n > 0 fragments the stored index
\* is in 0..n-1; a goto stores and shows the requested index reduced modulo
\* n; the 'forward' button of the last fragment leads to 0 and the 'back'
\* button of fragment 0 leads to n-1
C17_CyclicNavigation ==
  /\ primary_sources # << >> =>
       primary_source_index \in 0..(Len(primary_sources) - 1)
  /\ handled = "open" =>
       /\ primary_sources # << >>
       /\ primary_source_index = 0
       /\ window.open /\ window.index = 0
  /\ handled = "goto" =>
       /\ primary_source_index = Reduced(requested_index, Len(primary_sources))
       /\ window.open /\ window.index = primary_source_index
  /\ (handled \in {"open", "goto"} /\ Len(primary_sources) > 1) =>
       /\ window.buttons =
            << IF window.index = 0 THEN Len(primary_sources) - 1
               ELSE window.index - 1,
               IF window.index = Len(primary_sources) - 1 THEN 0
               ELSE window.index + 1 >>

\* a goto for index -1 was handled on a list of several fragments: the last
\* fragment is shown and its 'forward' button leads to 0
C17_Witness ==
  /\ handled = "goto"
  /\ requested_index = 0 - 1
  /\ Len(primary_sources) > 1
  /\ primary_source_index = Len(primary_sources) - 1
  /\ window.buttons[2] = 0


(***************************************************************************)
(* Two invocations of get_primary_source_fragments in flight               *)
(***************************************************************************)
\* the frame of an invocation that has not run yet
NewFrame(q, h, a, m) ==
  [query |-> q, hits |-> h, allowed_sources |-> a, max_fragments |-> m,
   pc |-> "call", search_words |-> << >>, phrases |-> << >>,
   candidate_docs |-> << >>, doc_index |-> 0, content_with_newlines |-> << >>,
   all_points |-> << >>, relevant_positions |-> << >>,
   locals |-> UnboundLocals, fragments |-> 0, processed_blocks |-> 0,
   result |-> << >>]

\* the list object that the display [] of _collect_fragments creates for
\* invocation p: a new object at every evaluation
NewList_shared(p) == 1

NewList(p) == p

\* the set object that set() of the loop over candidate_docs creates for
\* invocation p
NewSet(p) == p

\* the outcome of a step of an invocation: its frame and the objects
StepOutcome(f, L, S) == [frame |-> f, lists |-> L, block_sets |-> S]

\* entry: decompose the query, route, return [] when no document is left,
\* else enter _collect_fragments
FrameEnter(f, p, L, S) ==
  LET lwquery == Lower(f.query)
      docs == _collect_candidate_docs(f.hits, f.allowed_sources, lwquery)
  IN IF docs = << >>
     THEN StepOutcome([f EXCEPT !.phrases = PhrasesOf(lwquery),
                            !.search_words = SearchWordsOf(lwquery),
                            !.pc = "done"], L, S)
     ELSE StepOutcome([f EXCEPT !.phrases = PhrasesOf(lwquery),
                            !.search_words = SearchWordsOf(lwquery),
                            !.candidate_docs = docs,
                            !.pc = "docs",
                            !.doc_index = 1,
                            !.fragments = NewList(p)],
                  [L EXCEPT ![NewList(p)] = << >>], S)

\* after a collector returned frags: return them sorted when the cap is
\* reached, else go on with the next document
FrameAfterCollector(f, frags) ==
  IF Len(frags) >= f.max_fragments
  THEN [f EXCEPT !.pc = "done", !.result = _sort_and_return_fragments(frags)]
  ELSE [f EXCEPT !.pc = "docs", !.doc_index = @ + 1]

\* a document was read: enter its collector, which returns at once when the
\* text holds no keyword
FrameScanStart(f, L, S) ==
  StepOutcome(IF f.relevant_positions = << >>
          THEN FrameAfterCollector(f, L[f.fragments])
          ELSE [f EXCEPT !.pc = "scan"],
          L, S)

\* the text of doc was read as cwn
FrameRead(f, p, doc, cwn, L, S) ==
  FrameScanStart(
    [f EXCEPT !.content_with_newlines = cwn,
              !.all_points = point_pattern(cwn),
              !.relevant_positions =
                 relevant_positions_of(
                   cwn,
                   IF doc = INTERNATIONAL_RULES
                   THEN [i \in DOMAIN f.search_words |-> Lower(f.search_words[i])]
                   ELSE f.search_words,
                   f.phrases),
              !.processed_blocks = NewSet(p),
              !.locals = UnboundLocals],
    L, [S EXCEPT ![NewSet(p)] = {}])

\* the body of the loop over candidate_docs up to the collector's own loop
FrameOpen(f, p, doc, fs, L, S) ==
  IF ~PathExists(fs, doc) \/ (fs[doc].readable /\ ~IsCollected(doc))
  THEN StepOutcome([f EXCEPT !.doc_index = @ + 1], L, S)
  ELSE IF ~fs[doc].readable
  THEN StepOutcome([f EXCEPT !.pc = "error"], L, S)
  ELSE FrameRead(f, p, doc, content_with_newlines_of(fs[doc].content), L, S)

\* the loop over candidate_docs is over
FrameReturn(f, L, S) ==
  StepOutcome([f EXCEPT !.pc = "done",
                    !.result = _sort_and_return_fragments(L[f.fragments])],
          L, S)

\* the end of one iteration of a collector, which leaves the list as frags
FrameEndIteration(f, frags, returns, L, S) ==
  StepOutcome(IF \/ returns /\ Len(frags) >= f.max_fragments
             \/ Tail(f.relevant_positions) = << >>
          THEN FrameAfterCollector(
                 [f EXCEPT !.relevant_positions = Tail(@)], frags)
          ELSE [f EXCEPT !.relevant_positions = Tail(@)],
          [L EXCEPT ![f.fragments] = frags], S)

\* the end of an iteration of the corona and international collectors
FrameIterationDone(f, out, L, S) ==
  FrameEndIteration(f, L[f.fragments] \o out.emitted, out.emitted # << >>,
                    L, [S EXCEPT ![f.processed_blocks] = out.processed])

\* the end of an iteration of the technical-requirements collector
FrameTechnicalDone(f, out, L, S) ==
  IF out.error
  THEN StepOutcome([f EXCEPT !.pc = "error", !.locals = out.locals], L, S)
  ELSE FrameEndIteration([f EXCEPT !.locals = out.locals],
                         L[f.fragments] \o out.emitted, out.checks_max, L, S)

\* one iteration of the collector of doc
FrameScan(f, doc, L, S) ==
  IF doc = INTERNATIONAL_RULES
  THEN FrameIterationDone(f,
         InternationalIteration(f.content_with_newlines, f.all_points,
           INTERNATIONAL_RULES, f.search_words, f.phrases,
           S[f.processed_blocks], Head(f.relevant_positions)), L, S)
  ELSE IF doc = CORONA_RULES
  THEN FrameIterationDone(f,
         CoronaIteration(f.content_with_newlines, f.all_points,
           CORONA_RULES, f.search_words, f.phrases,
           S[f.processed_blocks], Head(f.relevant_positions)), L, S)
  ELSE FrameTechnicalDone(f,
         TechnicalIteration(f.content_with_newlines, f.all_points,
           TECHNICAL_REQUIREMENTS, f.search_words, f.phrases,
           S[f.processed_blocks], f.locals, Head(f.relevant_positions)), L, S)

\* an invocation that returned or raised
Finished(f) == f.pc \in {"done", "error"}

\* an invocation between its entry and its return
UnderWay(f) == f.pc \in {"docs", "scan"}

\* the next step of invocation p on directory fs
FrameStep(f, p, fs, L, S) ==
  IF f.pc = "call" THEN FrameEnter(f, p, L, S)
  ELSE IF f.pc = "scan" THEN FrameScan(f, f.candidate_docs[f.doc_index], L, S)
  ELSE IF f.doc_index <= Len(f.candidate_docs)
  THEN FrameOpen(f, p, f.candidate_docs[f.doc_index], fs, L, S)
  ELSE FrameReturn(f, L, S)

\* an invocation run from its entry to its end with nothing else running
RECURSIVE RunFrom(_, _)
RunFrom(out, fs) ==
  IF Finished(out.frame)
  THEN out.frame
  ELSE RunFrom(FrameStep(out.frame, 1, fs, out.lists, out.block_sets), fs)

RunAlone(f, fs) ==
  RunFrom(StepOutcome(NewFrame(f.query, f.hits, f.allowed_sources,
                               f.max_fragments),
                      [o \in Objects |-> << >>], [o \in Objects |-> {}]),
          fs)

\* two frames that ended alike: the same list returned, or both raised
SameEnd(f, g) == f.pc = g.pc /\ f.result = g.result

\* invocation p takes the step that yields out
Advance(p, out) ==
  /\ calls' = [calls EXCEPT ![p] = out.frame]
  /\ lists' = out.lists
  /\ block_sets' = out.block_sets
  /\ overlapped' = (overlapped \/ \E o \in Invocations \ {p} : UnderWay(calls[o]))
  /\ UNCHANGED beyond_pair

PairGetPrimarySourceFragments(p) ==
  /\ calls[p].pc = "call"
  /\ Advance(p, FrameEnter(calls[p], p, lists, block_sets))

PairOpenDocument(p) ==
  /\ calls[p].pc = "docs"
  /\ calls[p].doc_index <= Len(calls[p].candidate_docs)
  /\ Advance(p, FrameOpen(calls[p], p, calls[p].candidate_docs[calls[p].doc_index],
                          files, lists, block_sets))

PairReturnFragments(p) ==
  /\ calls[p].pc = "docs"
  /\ calls[p].doc_index > Len(calls[p].candidate_docs)
  /\ Advance(p, FrameReturn(calls[p], lists, block_sets))

PairCollectorStep(p) ==
  /\ calls[p].pc = "scan"
  /\ Advance(p, FrameScan(calls[p], calls[p].candidate_docs[calls[p].doc_index],
                          lists, block_sets))

NextPair ==
  \/ \E p \in Invocations : PairGetPrimarySourceFragments(p)
  \/ \E p \in Invocations : PairOpenDocument(p)
  \/ \E p \in Invocations : PairReturnFragments(p)
  \/ \E p \in Invocations : PairCollectorStep(p)

\* the arguments of the two invocations: different queries over one directory
PairAllowedLists ==
  { <<TECHNICAL_REQUIREMENTS, "faq.txt", INTERNATIONAL_RULES>>,
    <<CORONA_RULES, TECHNICAL_REQUIREMENTS>> }

\* every pair of different queries once: the two invocations are alike
QueryPairs == {qs \in Queries \X Queries : Len(qs[1]) < Len(qs[2])}

InitPair ==
  /\ InitCall
  /\ \E text \in SmallTexts : files = [d \in Range(ALLOWED_SOURCES) |-> File(text)]
  /\ hits = << >>
  /\ query = << >>
  /\ allowed_sources = << >>
  /\ max_fragments = 20
  /\ FreshSession /\ FreshNavigation
  /\ \E qs \in QueryPairs, a \in PairAllowedLists,
        m1 \in 1..MaxFragmentsArg, m2 \in 1..MaxFragmentsArg :
       calls = <<NewFrame(qs[1], << >>, a, m1), NewFrame(qs[2], << >>, a, m2)>>
  /\ lists = [o \in Objects |-> << >>]
  /\ block_sets = [o \in Objects |-> {}]
  /\ overlapped = FALSE

SpecPair == InitPair /\ [][NextPair]_pair_vars

\* C15: of two invocations for different queries that run interleaved, each
\* ends as it ends when run alone: the same list returned, or the same
\* exception raised
C15_NoInterference ==
  \A p \in DOMAIN calls :
    Finished(calls[p]) => SameEnd(calls[p], RunAlone(calls[p], files))

\* both invocations returned fragments, different lists, after steps of one
\* were taken while the other was under way
C15_Witness ==
  /\ overlapped
  /\ DOMAIN calls = Invocations
  /\ \A p \in Invocations : calls[p].pc = "done" /\ calls[p].result # << >>
  /\ calls[1].result # calls[2].result
  /\ calls[1].query # calls[2].query

\* a title with one trailing period removed
WithoutPeriod(title) ==
  IF EndsWith(title, <<".">>) THEN Strip(Slice(title, 0, Len(title) - 1))
  ELSE title

\* the start of the next header line after offset p, the end of the document
\* when there is none
NextHeaderStart(cwn, p) ==
  IF {i \in SectionMarkerStarts(cwn) : i > p} = {}
  THEN Len(cwn)
  ELSE SetMin({i \in SectionMarkerStarts(cwn) : i > p})

\* the corona or international collector is about to resolve the section of
\* the relevant position at the head of its list
ResolvingSection ==
  /\ pc = "scan"
  /\ candidate_docs[doc_index] \in {CORONA_RULES, INTERNATIONAL_RULES}

\* the offset lies inside a header line, after the marker
InsideHeader(cwn, p) ==
  \E h \in SectionMarkerStarts(cwn) : h < p /\ p <= LineEnd(cwn, h)

\* C21: for every offset the collectors resolve, an offset inside a header
\* line included, the section title is the full title of the nearest header
\* line that starts at or before the offset, less its trailing period, and
\* section_end is the start of the next header line after the offset or the
\* end of the document.
C21_SectionResolver ==
  ResolvingSection =>
    /\ WithoutPeriod(SectionOf(content_with_newlines,
                               Head(relevant_positions)).rel_section)
         = SectionTitleAt(content_with_newlines, Head(relevant_positions))
    /\ SectionOf(content_with_newlines, Head(relevant_positions)).section_end
         = NextHeaderStart(content_with_newlines, Head(relevant_positions))

\* the query's text with every '*...*' segment of two words or more replaced
\* by a blank, resumed at offset from
RECURSIVE KeywordText(_, _)
KeywordText(s, from) ==
  LET a == Find(s, <<"*">>, from)
      b == Find(s, <<"*">>, a + 1)
  IN IF a < 0 \/ b < 0 THEN Slice(s, from, Len(s))
     ELSE IF b = a + 1 THEN Slice(s, from, a + 1) \o KeywordText(s, a + 1)
     ELSE IF Len(SplitWs(Slice(s, a + 1, b))) >= 2
     THEN Slice(s, from, a) \o <<" ">> \o KeywordText(s, b + 1)
     ELSE Slice(s, from, b + 1) \o KeywordText(s, b + 1)

IsRoutingKey(w) == \E i \in DOMAIN CONTEXT_ROUTES : CONTEXT_ROUTES[i].key = w

\* the tokens of text that are keywords: longer than one character, and a
\* routing key or no base stop word
KeywordsIn(text) ==
  SelectSeq(SplitWs(text),
            LAMBDA w : Len(w) > 1 /\ (IsRoutingKey(w) \/ w \notin base_stop_words))

\* the '*...*' segments of two words or more, whitespace collapsed
LongSegments(s) ==
  SelectSeq([i \in DOMAIN PhraseMatches(s, 0) |->
               Join(SplitWs(PhraseMatches(s, 0)[i]), <<" ">>)],
            LAMBDA c : Len(SplitWs(c)) >= 2)

\* the query was decomposed
Decomposed == pc # "call"

\* C22: every '*...*' segment of two words or more becomes a phrase,
\* lower-cased and with its whitespace collapsed, and is removed from the
\* keyword text; the keywords are exactly the tokens of what remains that are
\* longer than one character and no base stop word, a routing key being kept.
C22_QueryDecomposition ==
  Decomposed =>
    /\ phrases = LongSegments(Lower(query))
    /\ search_words = KeywordsIn(KeywordText(Lower(query), 0))

\* C23: a goto handled on a non-empty cached list makes no call of the
\* extractor and leaves the cached list, the main source, the saved hits,
\* the permission and the history as they are: of the FSM data only the
\* index and the figure messages change.
C23_GotoFrame ==
  [][handled' = "goto" =>
       /\ primary_sources # << >>
       /\ ~reinvoked'.ran
       /\ primary_sources' = primary_sources
       /\ primary_source_main_source' = primary_source_main_source
       /\ primary_source_hits' = primary_source_hits
       /\ primary_source_is_rules' = primary_source_is_rules
       /\ chat_history' = chat_history]_navigation_vars

\* a goto moved the window of a list of several fragments, found through
\* saved hits, to a fragment that has a figure
C23_Witness ==
  /\ handled = "goto"
  /\ Len(primary_sources) > 1
  /\ primary_source_index > 0
  /\ primary_source_figure_messages # << >>
  /\ primary_source_hits # << >>

\* 'open' is pressed on an empty cache while primary sources are allowed and
\* the main source is a rule document
OpenOnEmptyCache ==
  /\ handle_primary_source_open
  /\ primary_sources = << >>
  /\ primary_source_is_rules
  /\ primary_source_main_source \in RULE_PRIMARY_ALLOWED_SOURCES

\* C24: 'open' on an empty cache, with primary sources allowed and a rule
\* document as main source, calls the extractor again for that source alone
\* and the last user query; fragments found are cached with index 0 and
\* fragment 0 is shown, else nothing is shown and the cache stays empty.
C24_Reinvocation ==
  [][OpenOnEmptyCache =>
       /\ reinvoked'.ran
       /\ reinvoked'.allowed_sources = <<primary_source_main_source>>
       /\ IF primary_sources' # << >>
          THEN /\ primary_source_index' = 0
               /\ handled' = "open"
               /\ window' = WindowAt(0, Len(primary_sources'))
          ELSE /\ handled' = "alert"
               /\ window' = window]_navigation_vars


\* a message of the user answered as an answer of the questionnaire
AnsweringAnketa == ProcessFaqQuery /\ phase = 3 /\ anketa_started

\* a question of the questionnaire becomes the current one
QuestionBecomesCurrent ==
  /\ phase' = 3
  /\ anketa_started'
  /\ (phase # 3 \/ ~anketa_started \/ anketa_question' # anketa_question)

\* C25: in phase 3 anketa_retry_count counts the consecutive invalid
\* answers to the current question: it is 0 when a question becomes the
\* current one, a valid answer resets it to 0, the first and the second
\* invalid answer add one and keep the question, the third one returns the
\* session to phase 1 with anketa_started false, anketa_question cleared and
\* the counter 0; between messages the counter is never above 2
C25_RetryCounter ==
  [][/\ anketa_retry_count' <= 2
     /\ QuestionBecomesCurrent => anketa_retry_count' = 0
     /\ AnsweringAnketa =>
          \/ UNCHANGED dialogue_vars
          \/ anketa_retry_count' = 0 /\ phase' \in {3, 4}
          \/ /\ anketa_retry_count < 2
             /\ anketa_retry_count' = anketa_retry_count + 1
             /\ anketa_question' = anketa_question
             /\ phase' = 3
          \/ /\ anketa_retry_count = 2
             /\ phase' = 1
             /\ ~anketa_started'
             /\ anketa_question' = 0
             /\ anketa_retry_count' = 0]_session_vars


\* a valid answer to the current question of the questionnaire
ValidAnketaAnswer == phase = 3 /\ anketa_started /\ AnketaAnswer(TRUE)

\* C26: in the questionnaire anketa_question advances by exactly one per
\* valid answer (1, 2, 3, 4, then 5) and never decreases while the session
\* stays in phase 3; the session goes from phase 3 to phase 4 only when
\* question 4 receives a valid answer, and the booking window is then shown
C26_QuestionAdvance ==
  [][/\ ValidAnketaAnswer =>
          anketa_question \in 1..4 /\ anketa_question' = anketa_question + 1
     /\ (phase = 3 /\ phase' = 3) => anketa_question' >= anketa_question
     /\ (phase = 3 /\ phase' = 4) =>
          /\ ValidAnketaAnswer
          /\ anketa_question = 4
          /\ phase4_window_shown'
          /\ "phase4" \in windows']_session_vars


\* the handler of the step consulted the knowledge base, the LLM or the
\* extractor, or stored fragments in the cache
Consulted(c) == c.search \/ c.llm \/ c.extraction \/ c.stored

\* C27: a text or voice message handled in phase 2, 3 or 4 triggers no
\* search of the knowledge base, no call of the LLM and no extraction, and
\* does not change the cached fragments; these happen only for a message
\* handled in phase 1 with no choice window active
C27_ConsultOnlyInPhase1 ==
  [][ProcessFaqQuery =>
       /\ phase \in {2, 3, 4} => consulted' = NoConsultation
       /\ Consulted(consulted') =>
            /\ phase = 1
            /\ ~intent_selection_shown
            /\ ~(policy_shown /\ phase = 2)
            /\ ~(phase4_window_shown /\ phase = 4)]_session_vars

C27_Witness ==
  /\ phase = 3
  /\ anketa_retry_count = 2
  /\ anketa_question = 4
  /\ consulted = NoConsultation

\* handle_phase4_button: the decision to save the lead
status_changed(old_status, current_status) ==
  \/ current_status # old_status
  \/ (old_status \in {"", Status_reader}
        /\ current_status \in {Status_training, Status_consultation})

\* C28: old_status_before_intent is the status of the profile before the
\* intent window was first shown, also after the window was displayed
\* again for a text of the user, so that the decision of the booking
\* window compares with the real previous status
C28_OldStatus ==
  /\ old_status_before_intent = status_before_intent
  /\ status_changed(old_status_before_intent, status)
       = status_changed(status_before_intent, status)


\* the consent window is active
ConsentWindowActive == phase = 2 /\ policy_shown

\* C29: a policy:accept callback takes effect only while the consent
\* window is active (phase 2 with policy_shown true); received otherwise,
\* for example from an old button during the questionnaire, it leaves the
\* phase, anketa_question and the state of the booking unchanged
C29_AcceptOnlyInWindow ==
  [][(handle_policy_accept /\ ~ConsentWindowActive) =>
       /\ phase' = phase
       /\ anketa_question' = anketa_question
       /\ phase4_window_shown' = phase4_window_shown
       /\ phase4_state' = phase4_state]_session_vars


\* the number of the elements of a list equal to x
Count(list, x) == Cardinality({i \in DOMAIN list : list[i] = x})

\* C30: the returned list is ordered by the key (_position, tuple of the
\* numbers of the rule number) over all documents jointly: it holds the
\* collected fragments, those of different documents interleaved by their
\* offsets; the priority of the documents decides only which fragments
\* are collected before the cutoff
C30_JointOrder ==
  Returned =>
    /\ \A i, j \in DOMAIN result :
         i < j =>
           \/ result[i].position < result[j].position
           \/ /\ result[i].position = result[j].position
              /\ TupleLE(_rule_number_sort_key(result[i]),
                         _rule_number_sort_key(result[j]))
    /\ Len(result) = Len(fragments)
    /\ \A i \in DOMAIN fragments :
         Count(result, fragments[i]) = Count(fragments, fragments[i])

\* a call returned a fragment of a later candidate document before a
\* fragment of an earlier one
C30_Witness ==
  /\ Returned
  /\ \E i, j \in DOMAIN result :
       /\ i < j
       /\ result[i].position < result[j].position
       /\ \E a, b \in DOMAIN candidate_docs :
            /\ a < b
            /\ candidate_docs[a] = result[j].source
            /\ candidate_docs[b] = result[i].source
====
